---- MODULE Spec2Model ----
(***************************************************************************)
(* Model of the change-detection workflow of the ABET consolidation tool:  *)
(*   src/src/email_auto.py       diff_files (diff two snapshots, e-mail)   *)
(*   src/src/abet_pdf_simple.py  scrape / mindiff command line tool        *)
(*   src/src/abet_scraper.py     two-target scraper run                    *)
(*   src/scripts/fetch_pdfs.py   fetch_pdf and its main loop               *)
(*   src/scripts/schedule_pdfs.py  cron and systemd schedule generation    *)
(*   src/report gen/abetReportGenerator.py  report generation from JSON    *)
(* One run of one entry point is one behaviour: Init picks the entry       *)
(* point, its arguments and the files already on disk; every action is one *)
(* step of the entry point's code.                                         *)
(***************************************************************************)
EXTENDS Integers, Sequences, FiniteSets, TLC

\* ------------------------------------------------------------------ bounds
\* Longest snapshot, in lines, that Init puts on disk or on the remote site.
MaxLen == 2

\* The line texts snapshots are made of.
Alphabet == {"A", "B"}

\* ------------------------------------------------------- sequence helpers
Min2(x, y) == IF x <= y THEN x ELSE y

Max2(x, y) == IF x >= y THEN x ELSE y

\* Python slice s[lo:hi] of a 0-based list, as a 1-based TLA+ sequence.
Slice(s, lo, hi) == SubSeq(s, lo + 1, hi)

\* F applied to the value of e: e is evaluated once, before F uses it.
With(e, F(_)) == CHOOSE r \in {F(v) : v \in {e}} : TRUE

\* All sequences over S of length at most n.
SeqsUpTo(S, n) == UNION {[1..k -> S] : k \in 0..n}

\* ---------------------------------------------------------------- difflib
\* difflib.SequenceMatcher with isjunk=None.  The autojunk heuristic only
\* acts on sequences of 200 or more elements, far above MaxLen.

\* j2len of find_longest_match: the length of the run of equal elements that
\* ends at a[i], b[j] (0-based) and starts no earlier than alo, blo.
RECURSIVE RunLen(_, _, _, _, _, _)
RunLen(a, b, alo, blo, i, j) ==
    IF a[i + 1] # b[j + 1] THEN 0
    ELSE IF i = alo \/ j = blo THEN 1
    ELSE 1 + RunLen(a, b, alo, blo, i - 1, j - 1)

\* The positions (i, j) of a[alo:ahi], b[blo:bhi] at which a[i] == b[j],
\* each with the length k of the run ending there: <<i, j, k>>.
RunEnds(a, b, alo, ahi, blo, bhi) ==
    {<<p[1], p[2], RunLen(a, b, alo, blo, p[1], p[2])>> :
        p \in {q \in (alo..(ahi - 1)) \X (blo..(bhi - 1)) :
                  a[q[1] + 1] = b[q[2] + 1]}}

\* The loops of find_longest_match run i, then j, upwards and replace the
\* best run only by a strictly longer one: p is kept against q.
KeptAgainst(p, q) ==
    \/ q[3] < p[3]
    \/ /\ q[3] = p[3]
       /\ \/ p[1] < q[1]
          \/ p[1] = q[1] /\ p[2] <= q[2]

\* The Match(besti, bestj, bestsize) of a run given by its end.
MatchOf(p) == <<p[1] - p[3] + 1, p[2] - p[3] + 1, p[3]>>

\* The best of the runs, or the empty match at (alo, blo).
BestMatch(ends, alo, blo) ==
    IF ends = {} THEN <<alo, blo, 0>>
    ELSE MatchOf(CHOOSE p \in ends : \A q \in ends : KeptAgainst(p, q))

\* SequenceMatcher.find_longest_match: the longest block a[i:i+k] == b[j:j+k]
\* inside a[alo:ahi], b[blo:bhi]; of the longest blocks the one that starts
\* earliest in a, and of those the one that starts earliest in b.
FindLongestMatch(a, b, alo, ahi, blo, bhi) ==
    With(RunEnds(a, b, alo, ahi, blo, bhi),
         LAMBDA ends : BestMatch(ends, alo, blo))

\* The work queue of get_matching_blocks followed by matching_blocks.sort():
\* blocks left of the longest match x, the match, blocks right of it.
RECURSIVE MatchingBlocksIn(_, _, _, _, _, _)
RECURSIVE MatchingBlocksAround(_, _, _, _, _, _, _)
MatchingBlocksAround(a, b, alo, ahi, blo, bhi, x) ==
    IF x[3] = 0 THEN <<>>
    ELSE (IF alo < x[1] /\ blo < x[2]
             THEN MatchingBlocksIn(a, b, alo, x[1], blo, x[2]) ELSE <<>>)
         \o <<x>>
         \o (IF x[1] + x[3] < ahi /\ x[2] + x[3] < bhi
                THEN MatchingBlocksIn(a, b, x[1] + x[3], ahi, x[2] + x[3], bhi)
                ELSE <<>>)

MatchingBlocksIn(a, b, alo, ahi, blo, bhi) ==
    With(<<alo, ahi, blo, bhi, FindLongestMatch(a, b, alo, ahi, blo, bhi)>>,
         LAMBDA v : MatchingBlocksAround(a, b, v[1], v[2], v[3], v[4], v[5]))

\* The collapsing loop of get_matching_blocks: adjacent blocks are merged.
\* cur is (i1, j1, k1); out is non_adjacent so far.
RECURSIVE CollapseAdjacent(_, _, _, _)
CollapseAdjacent(blocks, idx, cur, out) ==
    IF idx > Len(blocks)
    THEN IF cur[3] # 0 THEN Append(out, cur) ELSE out
    ELSE With(IF cur[1] + cur[3] = blocks[idx][1]
                 /\ cur[2] + cur[3] = blocks[idx][2]
              THEN <<idx + 1, <<cur[1], cur[2], cur[3] + blocks[idx][3]>>, out>>
              ELSE <<idx + 1, blocks[idx],
                     IF cur[3] # 0 THEN Append(out, cur) ELSE out>>,
              LAMBDA v : CollapseAdjacent(blocks, v[1], v[2], v[3]))

\* SequenceMatcher.get_matching_blocks, with the (la, lb, 0) sentinel.
GetMatchingBlocks(a, b) ==
    With(MatchingBlocksIn(a, b, 0, Len(a), 0, Len(b)),
         LAMBDA blocks :
             Append(CollapseAdjacent(blocks, 1, <<0, 0, 0>>, <<>>),
                    <<Len(a), Len(b), 0>>))

\* The tag get_opcodes gives the gap between (i, j) and the block at (ai, bj).
GapTag(i, j, ai, bj) ==
    IF i < ai /\ j < bj THEN "replace"
    ELSE IF i < ai THEN "delete"
    ELSE IF j < bj THEN "insert"
    ELSE ""

\* The opcodes get_opcodes appends for one matching block <<ai, bj, size>>
\* when the previous block ended at (i, j).  An opcode is
\* <<tag, i1, i2, j1, j2>>.
BlockOpcodes(i, j, blk) ==
    (IF GapTag(i, j, blk[1], blk[2]) # ""
        THEN << <<GapTag(i, j, blk[1], blk[2]), i, blk[1], j, blk[2]>> >>
        ELSE <<>>)
    \o (IF blk[3] # 0
           THEN << <<"equal", blk[1], blk[1] + blk[3], blk[2], blk[2] + blk[3]>> >>
           ELSE <<>>)

\* The loop of get_opcodes over the matching blocks.
RECURSIVE OpcodesFrom(_, _, _, _, _)
OpcodesFrom(blocks, idx, i, j, answer) ==
    IF idx > Len(blocks) THEN answer
    ELSE With(<<idx + 1,
                blocks[idx][1] + blocks[idx][3],
                blocks[idx][2] + blocks[idx][3],
                answer \o BlockOpcodes(i, j, blocks[idx])>>,
              LAMBDA v : OpcodesFrom(blocks, v[1], v[2], v[3], v[4]))

\* SequenceMatcher.get_opcodes.
GetOpcodes(a, b) ==
    With(GetMatchingBlocks(a, b),
         LAMBDA blocks : OpcodesFrom(blocks, 1, 0, 0, <<>>))

\* The grouping loop of get_grouped_opcodes; group is the open group and
\* groups the groups already yielded.
RECURSIVE GroupFrom(_, _, _, _, _)
GroupFrom(codes, idx, n, group, groups) ==
    IF idx > Len(codes)
    THEN IF group # <<>> /\ ~(Len(group) = 1 /\ group[1][1] = "equal")
         THEN Append(groups, group) ELSE groups
    ELSE LET c == codes[idx]
             tag == c[1]
             i1 == c[2]
             i2 == c[3]
             j1 == c[4]
             j2 == c[5]
         IN  With(IF tag = "equal" /\ i2 - i1 > n + n
                  THEN << << <<tag, Max2(i1, i2 - n), i2,
                               Max2(j1, j2 - n), j2>> >>,
                          Append(groups,
                                 Append(group, <<tag, i1, Min2(i2, i1 + n),
                                                 j1, Min2(j2, j1 + n)>>)) >>
                  ELSE <<Append(group, c), groups>>,
                  LAMBDA v : GroupFrom(codes, idx + 1, n, v[1], v[2]))

\* if not codes: codes = [("equal", 0, 1, 0, 1)]
OrDummy(codes) == IF codes = <<>> THEN << <<"equal", 0, 1, 0, 1>> >> ELSE codes

\* Fixup of a leading group that shows no change.
TrimFirst(codes, n) ==
    IF codes[1][1] = "equal"
    THEN [codes EXCEPT ![1] = <<@[1], Max2(@[2], @[3] - n), @[3],
                                Max2(@[4], @[5] - n), @[5]>>]
    ELSE codes

\* Fixup of a trailing group that shows no change.
TrimLast(codes, n) ==
    IF codes[Len(codes)][1] = "equal"
    THEN [codes EXCEPT ![Len(codes)] = <<@[1], @[2], Min2(@[3], @[2] + n),
                                         @[4], Min2(@[5], @[4] + n)>>]
    ELSE codes

\* SequenceMatcher.get_grouped_opcodes(n).
GetGroupedOpcodes(a, b, n) ==
    With(GetOpcodes(a, b),
         LAMBDA codes :
             With(TrimLast(TrimFirst(OrDummy(codes), n), n),
                  LAMBDA trimmed : GroupFrom(trimmed, 1, n, <<>>, <<>>)))

\* difflib._format_range_unified.
FormatRangeUnified(start, stop) ==
    IF stop - start = 1 THEN ToString(start + 1)
    ELSE ToString(IF stop - start = 0 THEN start ELSE start + 1)
         \o "," \o ToString(stop - start)

\* prefix + line for every line of lines.
Prefixed(prefix, lines) == [k \in 1..Len(lines) |-> prefix \o lines[k]]

\* OpcodeLines with the added lines of a change put before the removed ones.
OpcodeLinesAddedFirst(a, b, c) ==
    IF c[1] = "equal" THEN Prefixed(" ", Slice(a, c[2], c[3]))
    ELSE (IF c[1] \in {"replace", "insert"}
             THEN Prefixed("+", Slice(b, c[4], c[5])) ELSE <<>>)
         \o (IF c[1] \in {"replace", "delete"}
                THEN Prefixed("-", Slice(a, c[2], c[3])) ELSE <<>>)

\* OpcodeLines that leaves the unchanged lines out.
OpcodeLinesChangesOnly(a, b, c) ==
    IF c[1] = "equal" THEN <<>>
    ELSE (IF c[1] \in {"replace", "delete"}
             THEN Prefixed("-", Slice(a, c[2], c[3])) ELSE <<>>)
         \o (IF c[1] \in {"replace", "insert"}
                THEN Prefixed("+", Slice(b, c[4], c[5])) ELSE <<>>)

\* The lines unified_diff yields for one opcode.
OpcodeLines(a, b, c) ==
    IF c[1] = "equal" THEN Prefixed(" ", Slice(a, c[2], c[3]))
    ELSE (IF c[1] \in {"replace", "delete"}
             THEN Prefixed("-", Slice(a, c[2], c[3])) ELSE <<>>)
         \o (IF c[1] \in {"replace", "insert"}
                THEN Prefixed("+", Slice(b, c[4], c[5])) ELSE <<>>)

\* The lines unified_diff yields for the opcodes of one group.
RECURSIVE GroupLines(_, _, _, _)
GroupLines(a, b, group, idx) ==
    IF idx > Len(group) THEN <<>>
    ELSE OpcodeLines(a, b, group[idx]) \o GroupLines(a, b, group, idx + 1)

\* The "@@ -a,b +c,d @@" line of a group.
HunkHeader(g, lineterm) ==
    "@@ -" \o FormatRangeUnified(g[1][2], g[Len(g)][3])
    \o " +" \o FormatRangeUnified(g[1][4], g[Len(g)][5])
    \o " @@" \o lineterm

\* The hunk header and body unified_diff yields for the groups from idx on.
RECURSIVE HunksFrom(_, _, _, _, _)
HunksFrom(a, b, groups, idx, lineterm) ==
    IF idx > Len(groups) THEN <<>>
    ELSE <<HunkHeader(groups[idx], lineterm)>>
         \o GroupLines(a, b, groups[idx], 1)
         \o HunksFrom(a, b, groups, idx + 1, lineterm)

\* The lines unified_diff yields for the groups: nothing when there is no
\* group, else the two file header lines and the hunks.
DiffOfGroups(a, b, groups, fromfile, tofile, lineterm) ==
    IF groups = <<>> THEN <<>>
    ELSE << "--- " \o fromfile \o lineterm, "+++ " \o tofile \o lineterm >>
         \o HunksFrom(a, b, groups, 1, lineterm)

\* difflib.unified_diff(a, b, fromfile, tofile, n=n, lineterm=lineterm), as
\* the list of the lines it yields.
UnifiedDiff(a, b, fromfile, tofile, n, lineterm) ==
    With(GetGroupedOpcodes(a, b, n),
         LAMBDA groups : DiffOfGroups(a, b, groups, fromfile, tofile, lineterm))

\* -------------------------------------------------------------- the disk
\* A str value: its lines, and whether the last line ends in a newline.
Text(lines, nl) == [lines |-> lines, nl |-> nl /\ lines # <<>>]

\* The texts of at most n lines over Alphabet.
Texts(n) == {Text(l, nl) : l \in SeqsUpTo(Alphabet, n), nl \in BOOLEAN}

\* A path that names no file.
Missing == [exists |-> FALSE, kind |-> "none", valid |-> FALSE,
            lines |-> <<>>, nl |-> FALSE]

\* The file open(path, 'w').write(text) leaves behind.
TextFile(t) == [exists |-> TRUE, kind |-> "text", valid |-> TRUE,
                lines |-> t.lines, nl |-> t.nl]

\* Downloaded bytes: a PDF whose text is t, or bytes no PDF parser accepts.
PdfBytes(t, valid) == [exists |-> TRUE, kind |-> "pdf", valid |-> valid,
                       lines |-> IF valid THEN t.lines ELSE <<>>,
                       nl |-> valid /\ t.nl]

\* The str a text file holds.
FileText(f) == Text(f.lines, f.nl)

\* file.readlines(): every line keeps its line ending.
ReadLines(f) ==
    [k \in 1..Len(f.lines) |->
        f.lines[k] \o (IF k < Len(f.lines) \/ f.nl THEN "\n" ELSE "")]

\* file.read().splitlines(): the lines without their line endings.
SplitLines(f) == f.lines

\* ''.join(parts).
RECURSIVE JoinEmpty(_)
JoinEmpty(parts) ==
    IF parts = <<>> THEN "" ELSE Head(parts) \o JoinEmpty(Tail(parts))

\* '\n'.join(lines) for lines that hold no newline: the lines, the last one
\* without a line ending.
JoinNewline(lines) == Text(lines, FALSE)

\* ------------------------------------------------------------- the state
VARIABLES
    prog,           \* the entry point this run executes
    argv,           \* its command line arguments
    pc,             \* the statement the run is at; "done" once the process ended
    fs,             \* the disk: path -> file
    fs0,            \* the disk when the run started
    clock,          \* datetime.now(), in seconds
    i,              \* the target being processed (1-based), 0 when there is one
    url,            \* per target, the criteria page URL getlink returned
    pdf_bytes,      \* the downloaded bytes
    text,           \* the extracted text
    timestamp,      \* fetch_pdf's timestamp
    old_data,       \* diff_files: lines of the old file
    new_data,       \* diff_files: lines of the new file
    diff_text,      \* diff_files: the joined diff
    a_lines,        \* mindiff_text_files: lines of path_a
    b_lines,        \* mindiff_text_files: lines of path_b
    diff_lines,     \* mindiff_text_files: the diff
    smtp,           \* SMTP sessions opened, logins and sends tried, delivery
    success_count,  \* fetch_pdfs.main
    fail_count,     \* fetch_pdfs.main
    results,        \* what fetch_pdf returned for each target so far
    exit_code,      \* the process exit status, once pc = "done"
    reported,       \* an error was printed, logged or left as a traceback
    warned,         \* "Error sending email" was printed
    steps,          \* the workflow steps executed so far, in order
    past,           \* the earlier runs of this sequence of runs, oldest first
    pdf_pages,      \* read_pdf_text: the pages of the PDF, not yet extracted
    text_parts,     \* read_pdf_text: text_parts
    extracted,      \* read_pdf_text: the str returned
    html,           \* find_pdf_url_on_page: the anchors of the page
    link_text,      \* find_pdf_url_on_page: the link_text argument
    pdf_url,        \* find_pdf_url_on_page: the URL returned
    inputs,         \* abetReportGenerator: the (path, js) pairs main loads
    api_key,        \* abetReportGenerator: os.getenv("OPENAI_API_KEY")
    api_calls,      \* abetReportGenerator: the API calls made: input, response
    feedback_text,  \* abetReportGenerator: main's feedback_text
    document,       \* abetReportGenerator: doc, the Document being edited
    reports,        \* abetReportGenerator: the documents saved, in order
    call_args,      \* the arguments of a function called on its own
    returned        \* what that function returned or raised

vars == <<prog, argv, pc, fs, fs0, clock, i, url, pdf_bytes, text, timestamp,
          old_data, new_data, diff_text, a_lines, b_lines, diff_lines, smtp,
          success_count, fail_count, results, exit_code, reported, warned,
          steps, past, pdf_pages, text_parts, extracted, html, link_text,
          pdf_url, inputs, api_key, api_calls, feedback_text, document, reports,
          call_args, returned>>

\* The variables of the function-level runs.
unitVars == <<pdf_pages, text_parts, extracted, html, link_text, pdf_url>>

\* The variables of the report generator and of the functions called on
\* their own.
toolVars == <<inputs, api_key, api_calls, feedback_text, document, reports,
              call_args, returned>>

\* What no step of a run of the scrapers changes.
runVars == <<prog, argv, past, unitVars, toolVars>>

netVars == <<url, pdf_bytes, text, timestamp>>

diffVars == <<old_data, new_data, diff_text, a_lines, b_lines, diff_lines>>

loopVars == <<success_count, fail_count, results>>

\* ------------------------------------------------------------------ paths
OLD_FILE_CS == "src/cs_criteria.txt"

NEW_FILE_CS == "src/new_cs_criteria.txt"

CS_text == "cs_criteria.txt"

CSE_text == "cse_criteria.txt"

\* abet_pdf_simple: the --diff-output, --save-pdf and --output arguments.
DiffOutput == "old+new_diff.txt"

SavePdf == "criteria.pdf"

Output == "out.txt"

\* fetch_pdfs.DEFAULT_PDFS, by name.
Targets == <<"CS_Criteria", "CSE_Criteria">>

\* Latest second of the clock.
MaxStamp == 2

Stamps == 1..MaxStamp

\* fetch_pdf: os.path.join(pdf_dir, f"{name}_{timestamp}.pdf").
PdfPath(name, ts) == "data/abet_pdfs/" \o name \o "_" \o ToString(ts) \o ".pdf"

\* fetch_pdf: os.path.join(text_dir, f"{name}_{timestamp}.txt").
TextPath(name, ts) ==
    "data/abet_pdf_text/" \o name \o "_" \o ToString(ts) \o ".txt"

\* The names a target can have: those, and main's f'PDF_{i+1}'.
TargetNames == {Targets[k] : k \in 1..Len(Targets)} \cup {"PDF_1", "PDF_2"}

\* abetReportGenerator: most inputs of a run.
MaxInputs == 2

\* abetReportGenerator: template_path, the report of the k-th input and
\* output_csv.
TemplatePath == "generated_pdfs/_ABET_TEMPLATE.docx"

ReportPath(k) == "generated_pdfs/input" \o ToString(k) \o "_ABET_Report.docx"

OutputCsv == "ABETReportSummary.csv"

Paths == {OLD_FILE_CS, NEW_FILE_CS, CS_text, CSE_text, DiffOutput, SavePdf,
          Output}
         \cup {PdfPath(n, ts) : n \in TargetNames, ts \in Stamps}
         \cup {TextPath(n, ts) : n \in TargetNames, ts \in Stamps}
         \cup {TemplatePath, OutputCsv} \cup {ReportPath(k) : k \in 1..MaxInputs}

\* ------------------------------------------------------------ environment
\* Longest document, in lines, the remote site serves.
MaxDocLen == 1

\* What a download can deliver: a PDF, or bytes that are no PDF.
RemoteDocs == {PdfBytes(t, TRUE) : t \in Texts(MaxDocLen)}
              \cup {PdfBytes(Text(<<>>, FALSE), FALSE)}

\* A snapshot an earlier run left on disk.
PriorSnapshots == {Missing, TextFile(Text(<<"A">>, TRUE))}

\* unified_diff's default n, which diff_files does not override.
DifflibContext == 3

\* The --diff-context values tried; 3 is the default.
Contexts == {0, 1, 3}

NoArgs == [mode |-> "", save_pdf |-> FALSE, output |-> FALSE, context |-> 3,
           no_text |-> FALSE, urls |-> <<>>, names |-> <<>>]

\* One executed workflow step of target t.
Step(t, s) == [t |-> t, s |-> s]

\* The run ends: process exit with the given status.
Exit(code) == pc' = "done" /\ exit_code' = code

\* An exception nobody catches, or one a handler turns into exit(1): the
\* error is printed and the process ends with status 1.
Abort(t) ==
    /\ Exit(1)
    /\ reported' = TRUE
    /\ steps' = Append(steps, Step(t, "ERROR"))

\* AbortAfter with the error swallowed: nothing is printed and the process
\* ends with status 0.
AbortAfterSwallowed(t, s) ==
    /\ Exit(0)
    /\ reported' = reported
    /\ steps' = steps \o <<Step(t, s), Step(t, "ERROR")>>

\* The same, for an error raised by step s of target t.
AbortAfter(t, s) ==
    /\ Exit(1)
    /\ reported' = TRUE
    /\ steps' = steps \o <<Step(t, s), Step(t, "ERROR")>>

\* The locals every entry point starts with.
InitLocals ==
    /\ fs0 = fs
    /\ i = 0
    /\ url = <<"", "">>
    /\ pdf_bytes = Missing
    /\ text = Text(<<>>, FALSE)
    /\ timestamp = 0
    /\ old_data = <<>>
    /\ new_data = <<>>
    /\ diff_text = ""
    /\ a_lines = <<>>
    /\ b_lines = <<>>
    /\ diff_lines = <<>>
    /\ smtp = [sessions |-> 0, logins |-> 0, sends |-> 0, delivered |-> 0]
    /\ success_count = 0
    /\ fail_count = 0
    /\ results = <<>>
    /\ exit_code = 0
    /\ reported = FALSE
    /\ warned = FALSE
    /\ steps = <<>>
    /\ past = <<>>

\* The entry points call no function on its own.
NoUnit ==
    /\ pdf_pages = <<>>
    /\ text_parts = <<>>
    /\ extracted = ""
    /\ html = <<>>
    /\ link_text = ""
    /\ pdf_url = ""

\* Nor do they generate reports.
NoTool ==
    /\ inputs = <<>>
    /\ api_key = <<>>
    /\ api_calls = <<>>
    /\ feedback_text = <<>>
    /\ document = <<>>
    /\ reports = <<>>
    /\ call_args = <<>>
    /\ returned = <<>>

\* Most runs, one after the other, that are looked at.
MaxRuns == 2

\* What is kept of a finished run: what it read, what it computed, whether
\* it opened an SMTP session, when it ran and the disk it left.
RunRecord ==
    [old_data |-> old_data, new_data |-> new_data, diff_text |-> diff_text,
     a_lines |-> a_lines, b_lines |-> b_lines, diff_lines |-> diff_lines,
     sessions |-> smtp.sessions, clock |-> clock, fs |-> fs, fs0 |-> fs0,
     diffed |-> \E k \in 1..Len(steps) : steps[k].s = "DIFF"]

\* The process has ended and the same command is started again, later, on
\* the disk `disk`: every local is as at the start of a run.
StartOver(first_pc, disk) ==
    /\ pc = "done"
    /\ Len(past) < MaxRuns - 1
    /\ past' = Append(past, RunRecord)
    /\ pc' = first_pc
    /\ fs' = disk
    /\ fs0' = disk
    /\ \E later \in Stamps : later > clock /\ clock' = later
    /\ i' = 0
    /\ url' = <<"", "">>
    /\ pdf_bytes' = Missing
    /\ text' = Text(<<>>, FALSE)
    /\ timestamp' = 0
    /\ old_data' = <<>>
    /\ new_data' = <<>>
    /\ diff_text' = ""
    /\ a_lines' = <<>>
    /\ b_lines' = <<>>
    /\ diff_lines' = <<>>
    /\ smtp' = [sessions |-> 0, logins |-> 0, sends |-> 0, delivered |-> 0]
    /\ success_count' = 0
    /\ fail_count' = 0
    /\ results' = <<>>
    /\ exit_code' = 0
    /\ reported' = FALSE
    /\ warned' = FALSE
    /\ steps' = <<>>
    /\ UNCHANGED <<prog, argv, unitVars>>

\* The snapshots of the documented scenario: A, B, C before and A, B, D
\* after.
ScenarioOld == Text(<<"A", "B", "C">>, TRUE)

ScenarioNew == Text(<<"A", "B", "D">>, TRUE)

\* The snapshot files a run may find on disk.
SnapshotFiles ==
    {Missing} \cup {TextFile(t) : t \in Texts(MaxLen)}
    \cup {TextFile(ScenarioOld), TextFile(ScenarioNew)}

NoFiles == [p \in Paths |-> Missing]

\* ----------------------------------------------- email_auto.py: diff_files
\* python email_auto.py: diff_files(OLD_FILE_CS, NEW_FILE_CS).
InitEmailAuto ==
    /\ prog = "email_auto"
    /\ argv = NoArgs
    /\ pc = "df_check_old"
    /\ clock = 1
    /\ \E o \in SnapshotFiles, n \in SnapshotFiles :
          fs = [NoFiles EXCEPT ![OLD_FILE_CS] = o, ![NEW_FILE_CS] = n]
    /\ InitLocals
    /\ NoUnit
    /\ NoTool

\* if not os.path.exists(old_file_path): print(...); exit(1)
DfCheckOld ==
    /\ pc = "df_check_old"
    /\ IF ~fs[OLD_FILE_CS].exists
       THEN Abort(0)
       ELSE pc' = "df_check_new" /\ UNCHANGED <<exit_code, reported, steps>>
    /\ UNCHANGED <<runVars, fs, fs0, clock, i, netVars, diffVars, smtp,
                   loopVars, warned>>

\* if not os.path.exists(new_file_path): print(...); exit(1)
DfCheckNew ==
    /\ pc = "df_check_new"
    /\ IF ~fs[NEW_FILE_CS].exists
       THEN Abort(0)
       ELSE pc' = "df_read" /\ UNCHANGED <<exit_code, reported, steps>>
    /\ UNCHANGED <<runVars, fs, fs0, clock, i, netVars, diffVars, smtp,
                   loopVars, warned>>

\* with open(old) as ..., open(new) as ...: readlines() of both.  open() of
\* an unreadable file raises and nothing catches it.
DfRead ==
    /\ pc = "df_read"
    /\ \E readable \in BOOLEAN :
          IF readable
          THEN /\ old_data' = ReadLines(fs[OLD_FILE_CS])
               /\ new_data' = ReadLines(fs[NEW_FILE_CS])
               /\ pc' = "df_diff"
               /\ steps' = Append(steps, Step(0, "LOAD_PREVIOUS"))
               /\ UNCHANGED <<exit_code, reported>>
          ELSE AbortAfter(0, "LOAD_PREVIOUS") /\ UNCHANGED <<old_data, new_data>>
    /\ UNCHANGED <<runVars, fs, fs0, clock, i, netVars, diff_text, a_lines,
                   b_lines, diff_lines, smtp, loopVars, warned>>

\* bool(diff_cs): unified_diff returns a generator, and a generator object is
\* true whatever it will yield.
DiffCsIsTrue(old, new) == TRUE

\* DiffText with the old lines passed for both files.
DiffTextOfOld(old, new) ==
    JoinEmpty(UnifiedDiff(old, old, "Old CS Criteria", "New CS Criteria",
                          DifflibContext, ""))

\* diff_text = ''.join(diff_cs), diff_cs = difflib.unified_diff(old_data,
\* new_data, fromfile='Old CS Criteria', tofile='New CS Criteria', lineterm='').
DiffText(old, new) ==
    JoinEmpty(UnifiedDiff(old, new, "Old CS Criteria", "New CS Criteria",
                          DifflibContext, ""))

\* diff_cs = unified_diff(...); if diff_cs: diff_text = ''.join(diff_cs) and
\* the message is built; otherwise diff_files returns.
DfDiff ==
    /\ pc = "df_diff"
    /\ IF DiffCsIsTrue(old_data, new_data)
       THEN /\ diff_text' = DiffText(old_data, new_data)
            /\ pc' = "df_notify"
            /\ steps' = Append(steps, Step(0, "DIFF"))
            /\ UNCHANGED exit_code
       ELSE /\ Exit(0)
            /\ steps' = steps \o <<Step(0, "DIFF"), Step(0, "SKIP")>>
            /\ UNCHANGED diff_text
    /\ UNCHANGED <<runVars, fs, fs0, clock, i, netVars, old_data, new_data,
                   a_lines, b_lines, diff_lines, smtp, loopVars, reported,
                   warned>>

\* What one SMTP session can come to.
SmtpOutcomes == {"connect_failed", "login_failed", "send_failed", "sent"}

\* with smtplib.SMTP_SSL(...) as smtp: smtp.login(...); smtp.send_message(msg)
SmtpSession(outcome) ==
    [sessions |-> smtp.sessions + 1,
     logins |-> smtp.logins + (IF outcome = "connect_failed" THEN 0 ELSE 1),
     sends |-> smtp.sends + (IF outcome \in {"send_failed", "sent"} THEN 1 ELSE 0),
     delivered |-> smtp.delivered + (IF outcome = "sent" THEN 1 ELSE 0)]

\* DfNotify without the except clause: a failed session ends the process
\* with a traceback and status 1.
DfNotifyUncaught ==
    /\ pc = "df_notify"
    /\ \E outcome \in SmtpOutcomes :
          /\ smtp' = SmtpSession(outcome)
          /\ warned' = FALSE
          /\ Exit(IF outcome = "sent" THEN 0 ELSE 1)
          /\ reported' = (outcome # "sent")
    /\ steps' = Append(steps, Step(0, "NOTIFY"))
    /\ UNCHANGED <<runVars, fs, fs0, clock, i, netVars, diffVars, loopVars>>

\* DfNotify with one more try after a failed session.
DfNotifyRetry ==
    /\ pc = "df_notify"
    /\ \E outcome \in SmtpOutcomes :
          /\ smtp' = SmtpSession(outcome)
          /\ warned' = (outcome # "sent")
          /\ IF outcome # "sent" /\ smtp.sessions = 0
             THEN pc' = "df_notify" /\ UNCHANGED exit_code
             ELSE Exit(0)
    /\ steps' = Append(steps, Step(0, "NOTIFY"))
    /\ UNCHANGED <<runVars, fs, fs0, clock, i, netVars, diffVars, loopVars,
                   reported>>

\* try: one SMTP session; except Exception as e: print("Error sending
\* email"); then diff_files returns and the process ends with status 0.
DfNotify ==
    /\ pc = "df_notify"
    /\ \E outcome \in SmtpOutcomes :
          /\ smtp' = SmtpSession(outcome)
          /\ warned' = (outcome # "sent")
    /\ steps' = Append(steps, Step(0, "NOTIFY"))
    /\ Exit(0)
    /\ UNCHANGED <<runVars, fs, fs0, clock, i, netVars, diffVars, loopVars,
                   reported>>

\* The script is run again at the next interval, the monitored content (the
\* new file) being what it was.  diff_files writes no file; the usage notes
\* leave it to the operator to replace the old file by the new one after a
\* detected difference, which is done (promote) or not.
DfRerun ==
    /\ prog = "email_auto"
    /\ \E promote \in BOOLEAN :
          StartOver("df_check_old",
                    IF promote /\ fs[NEW_FILE_CS].exists
                    THEN [fs EXCEPT ![OLD_FILE_CS] = fs[NEW_FILE_CS]]
                    ELSE fs)
    /\ UNCHANGED toolVars

EmailAutoNext ==
    DfCheckOld \/ DfCheckNew \/ DfRead \/ DfDiff \/ DfNotify \/ DfRerun

\* ------------------------------------------------------ abet_pdf_simple.py
\* python abet_pdf_simple.py --mindiff OLD NEW [-d out] [-c n]
\*                         | URL --from-page [-p pdf] [-o out]
\*                         | URL [-o out]
InitPdfSimple ==
    /\ prog = "abet_pdf_simple"
    /\ clock = 1
    /\ \/ /\ \E c \in Contexts :
                argv = [NoArgs EXCEPT !.mode = "mindiff", !.context = c]
          /\ pc = "md_check"
          /\ \E o \in SnapshotFiles, n \in SnapshotFiles :
                fs = [NoFiles EXCEPT ![OLD_FILE_CS] = o, ![NEW_FILE_CS] = n]
       \/ /\ \E m \in {"page", "direct"}, p \in BOOLEAN, o \in BOOLEAN :
                /\ argv = [NoArgs EXCEPT !.mode = m, !.save_pdf = p, !.output = o]
                /\ pc = IF m = "page" THEN "pg_find" ELSE "pg_download"
          /\ \E prior \in PriorSnapshots : fs = [NoFiles EXCEPT ![Output] = prior]
    /\ InitLocals
    /\ NoUnit
    /\ NoTool

\* mindiff_text_files: raise ValueError('File not found') for a missing
\* path_a or path_b; __main__ catches it, prints and exits with 1.
MdCheck ==
    /\ pc = "md_check"
    /\ IF ~fs[OLD_FILE_CS].exists \/ ~fs[NEW_FILE_CS].exists
       THEN Abort(0)
       ELSE pc' = "md_read" /\ UNCHANGED <<exit_code, reported, steps>>
    /\ UNCHANGED <<runVars, fs, fs0, clock, i, netVars, diffVars, smtp,
                   loopVars, warned>>

\* a_lines = fa.read().splitlines(); b_lines = fb.read().splitlines()
MdRead ==
    /\ pc = "md_read"
    /\ \E readable \in BOOLEAN :
          IF readable
          THEN /\ a_lines' = SplitLines(fs[OLD_FILE_CS])
               /\ b_lines' = SplitLines(fs[NEW_FILE_CS])
               /\ pc' = "md_diff"
               /\ steps' = Append(steps, Step(0, "LOAD_PREVIOUS"))
               /\ UNCHANGED <<exit_code, reported>>
          ELSE AbortAfter(0, "LOAD_PREVIOUS") /\ UNCHANGED <<a_lines, b_lines>>
    /\ UNCHANGED <<runVars, fs, fs0, clock, i, netVars, old_data, new_data,
                   diff_text, diff_lines, smtp, loopVars, warned>>

\* MindiffLines that puts the time of the run into the file header lines.
MindiffLinesDated(a, b, context) ==
    UnifiedDiff(a, b, OLD_FILE_CS \o "\t" \o ToString(clock),
                NEW_FILE_CS \o "\t" \o ToString(clock), context, "")

\* MindiffLines that leaves n at unified_diff's default.
MindiffLinesDefaultContext(a, b, context) ==
    UnifiedDiff(a, b, OLD_FILE_CS, NEW_FILE_CS, DifflibContext, "")

\* diff_lines = list(difflib.unified_diff(a_lines, b_lines, fromfile=path_a,
\* tofile=path_b, n=context, lineterm=''))
MindiffLines(a, b, context) ==
    UnifiedDiff(a, b, OLD_FILE_CS, NEW_FILE_CS, context, "")

MdDiff ==
    /\ pc = "md_diff"
    /\ diff_lines' = MindiffLines(a_lines, b_lines, argv.context)
    /\ pc' = "md_write"
    /\ steps' = Append(steps, Step(0, "DIFF"))
    /\ UNCHANGED <<runVars, fs, fs0, clock, i, netVars, old_data, new_data,
                   diff_text, a_lines, b_lines, smtp, loopVars, exit_code,
                   reported, warned>>

\* What mindiff_text_files writes to out_path: '' when there are no diff
\* lines, else '\n'.join(diff_lines).
MindiffContent(lines) ==
    IF lines = <<>> THEN Text(<<>>, FALSE) ELSE JoinNewline(lines)

\* The diff is written; __main__ prints the path and calls sys.exit(0).
MdWrite ==
    /\ pc = "md_write"
    /\ fs' = [fs EXCEPT ![DiffOutput] = TextFile(MindiffContent(diff_lines))]
    /\ steps' = Append(steps, Step(0, "PERSIST_DIFF"))
    /\ Exit(0)
    /\ UNCHANGED <<runVars, fs0, clock, i, netVars, diffVars, smtp,
                   loopVars, reported, warned>>

\* What looking for the download link on a page can come to.
FindOutcomes == {"http_error", "not_found", "found"}

\* requests.get(page_url) is called without a timeout: besides the outcomes
\* above, the server may never answer.
PageGetOutcomes == FindOutcomes \cup {"no_response"}

\* The call never returns: the process waits in it for ever.
Block ==
    /\ pc' = "blocked"
    /\ UNCHANGED <<steps, exit_code, reported>>

\* scrape_pdf_from_page: pdf_url = find_pdf_url_on_page(page_url, link_text).
\* ImportError without BeautifulSoup, an HTTP error from the page GET,
\* ValueError when no link is found; __main__ turns each into exit(1).
PgFind ==
    /\ pc = "pg_find"
    /\ \E bs4 \in BOOLEAN, outcome \in PageGetOutcomes :
          IF ~bs4 THEN Abort(0)
          ELSE IF outcome = "no_response" THEN Block
          ELSE IF outcome # "found" THEN AbortAfter(0, "FETCH")
          ELSE /\ pc' = "pg_download"
               /\ steps' = Append(steps, Step(0, "FETCH"))
               /\ UNCHANGED <<exit_code, reported>>
    /\ UNCHANGED <<runVars, fs, fs0, clock, i, netVars, diffVars, smtp,
                   loopVars, warned>>

\* pdf_bytes = get_pdf_from_url(pdf_url): requests.get with timeout=30 and
\* raise_for_status.
PgDownload ==
    /\ pc = "pg_download"
    /\ \/ /\ AbortAfter(0, "FETCH")
          /\ UNCHANGED pdf_bytes
       \/ /\ \E doc \in RemoteDocs : pdf_bytes' = doc
          /\ pc' = "pg_save"
          /\ steps' = Append(steps, Step(0, "FETCH"))
          /\ UNCHANGED <<exit_code, reported>>
    /\ UNCHANGED <<runVars, fs, fs0, clock, i, url, text, timestamp,
                   diffVars, smtp, loopVars, warned>>

\* scrape_pdf_from_page: if save_pdf: open(save_pdf, 'wb').write(pdf_bytes).
\* scrape_pdf, the direct mode, has no save_pdf.
PgSave ==
    /\ pc = "pg_save"
    /\ IF argv.mode = "page" /\ argv.save_pdf
       THEN /\ fs' = [fs EXCEPT ![SavePdf] = pdf_bytes]
            /\ steps' = Append(steps, Step(0, "PERSIST_PDF"))
       ELSE UNCHANGED <<fs, steps>>
    /\ pc' = "pg_extract"
    /\ UNCHANGED <<runVars, fs0, clock, i, netVars, diffVars, smtp,
                   loopVars, exit_code, reported, warned>>

\* text = read_pdf_text(pdf_bytes): ImportError without a PDF library; the
\* reader raises on bytes that are no PDF.
PgExtract ==
    /\ pc = "pg_extract"
    /\ \E backend \in BOOLEAN :
          IF ~backend THEN Abort(0) /\ UNCHANGED text
          ELSE IF ~pdf_bytes.valid
          THEN AbortAfter(0, "EXTRACT") /\ UNCHANGED text
          ELSE /\ text' = FileText(pdf_bytes)
               /\ pc' = "pg_output"
               /\ steps' = Append(steps, Step(0, "EXTRACT"))
               /\ UNCHANGED <<exit_code, reported>>
    /\ UNCHANGED <<runVars, fs, fs0, clock, i, url, pdf_bytes, timestamp,
                   diffVars, smtp, loopVars, warned>>

\* if args.output: write the text to it; else print it.  The run ends.
PgOutput ==
    /\ pc = "pg_output"
    /\ IF argv.output
       THEN /\ fs' = [fs EXCEPT ![Output] = TextFile(text)]
            /\ steps' = Append(steps, Step(0, "PERSIST"))
       ELSE UNCHANGED <<fs, steps>>
    /\ Exit(0)
    /\ UNCHANGED <<runVars, fs0, clock, i, netVars, diffVars, smtp,
                   loopVars, reported, warned>>

\* The same --mindiff command is run again, later, on the disk the earlier
\* run left: the two inputs as they were, and the diff file it wrote.
MdRerun ==
    /\ prog = "abet_pdf_simple"
    /\ argv.mode = "mindiff"
    /\ StartOver("md_check", fs)
    /\ UNCHANGED toolVars

PdfSimpleNext ==
    MdCheck \/ MdRead \/ MdDiff \/ MdWrite \/ MdRerun \/ PgFind \/ PgDownload
    \/ PgSave \/ PgExtract \/ PgOutput

\* --------------------------------------------------------- abet_scraper.py
\* python abet_scraper.py: targets 1 (CS, cs_criteria.txt) and 2 (CSE,
\* cse_criteria.txt).
InitScraper ==
    /\ prog = "abet_scraper"
    /\ argv = NoArgs
    /\ pc = "sc_getlink"
    /\ clock = 1
    /\ \E cs \in PriorSnapshots, cse \in PriorSnapshots :
          fs = [NoFiles EXCEPT ![CS_text] = cs, ![CSE_text] = cse]
    /\ InitLocals
    /\ NoUnit
    /\ NoTool

\* The text file of target t.
ScraperText(t) == IF t = 1 THEN CS_text ELSE CSE_text

\* The target whose link or page is handled at this point.
ScTarget == IF i = 0 THEN 1 ELSE i

\* CS_url = getlink(...); CSE_url = getlink(...): a GET of the criteria index
\* page (no timeout) with raise_for_status; the href of the first anchor whose href holds
\* the section name, or None when the loop finds none.
ScGetlink ==
    /\ pc = "sc_getlink"
    /\ \E outcome \in PageGetOutcomes :
          IF outcome = "no_response"
          THEN Block /\ UNCHANGED <<url, i>>
          ELSE IF outcome = "http_error"
          THEN AbortAfter(ScTarget, "FETCH") /\ UNCHANGED <<url, i>>
          ELSE /\ url' = [url EXCEPT ![ScTarget] =
                             IF outcome = "found" THEN "page" ELSE "None"]
               /\ steps' = Append(steps, Step(ScTarget, "FETCH"))
               /\ IF ScTarget = 1
                  THEN i' = 2 /\ pc' = "sc_getlink"
                  ELSE i' = 1 /\ pc' = "sc_find"
               /\ UNCHANGED <<exit_code, reported>>
    /\ UNCHANGED <<runVars, fs, fs0, clock, pdf_bytes, text, timestamp,
                   diffVars, smtp, loopVars, warned>>

\* scrape_pdf_from_page(CS_url, save_pdf): find_pdf_url_on_page GETs the page
\* (requests raises on the URL None), raise_for_status, and raises ValueError
\* when no anchor holds 'Download the Criteria'.
ScFind ==
    /\ pc = "sc_find"
    /\ \E outcome \in PageGetOutcomes :
          IF url[i] = "None" THEN AbortAfter(i, "FETCH")
          ELSE IF outcome = "no_response" THEN Block
          ELSE IF outcome # "found" THEN AbortAfter(i, "FETCH")
          ELSE /\ pc' = "sc_download"
               /\ steps' = Append(steps, Step(i, "FETCH"))
               /\ UNCHANGED <<exit_code, reported>>
    /\ UNCHANGED <<runVars, fs, fs0, clock, i, netVars, diffVars, smtp,
                   loopVars, warned>>

\* pdf_bytes = get_pdf_from_url(pdf_url).  __main__ passes its save_pdf as
\* link_text, so the function's save_pdf is None and no PDF is saved.
ScDownload ==
    /\ pc = "sc_download"
    /\ \/ /\ AbortAfter(i, "FETCH")
          /\ UNCHANGED pdf_bytes
       \/ /\ \E doc \in RemoteDocs : pdf_bytes' = doc
          /\ pc' = "sc_extract"
          /\ steps' = Append(steps, Step(i, "FETCH"))
          /\ UNCHANGED <<exit_code, reported>>
    /\ UNCHANGED <<runVars, fs, fs0, clock, i, url, text, timestamp,
                   diffVars, smtp, loopVars, warned>>

\* text = read_pdf_text(pdf_bytes).
ScExtract ==
    /\ pc = "sc_extract"
    /\ IF ~pdf_bytes.valid
       THEN AbortAfter(i, "EXTRACT") /\ UNCHANGED text
       ELSE /\ text' = FileText(pdf_bytes)
            /\ pc' = "sc_write"
            /\ steps' = Append(steps, Step(i, "EXTRACT"))
            /\ UNCHANGED <<exit_code, reported>>
    /\ UNCHANGED <<runVars, fs, fs0, clock, i, url, pdf_bytes, timestamp,
                   diffVars, smtp, loopVars, warned>>

\* with open(CS_text, 'w') as f: f.write(text); then the CSE target, and
\* after it the call of email_auto.runprog.
ScWrite ==
    /\ pc = "sc_write"
    /\ fs' = [fs EXCEPT ![ScraperText(i)] = TextFile(text)]
    /\ steps' = Append(steps, Step(i, "PERSIST"))
    /\ IF i = 1
       THEN i' = 2 /\ pc' = "sc_find"
       ELSE i' = i /\ pc' = "sc_runprog"
    /\ UNCHANGED <<runVars, fs0, clock, netVars, diffVars, smtp, loopVars,
                   exit_code, reported, warned>>

\* email_auto.runprog(): email_auto defines no runprog, so the call raises
\* AttributeError, which nothing catches.
ScRunprog ==
    /\ pc = "sc_runprog"
    /\ Exit(1)
    /\ reported' = TRUE
    /\ steps' = Append(steps, Step(0, "CRASH"))
    /\ UNCHANGED <<runVars, fs, fs0, clock, i, netVars, diffVars, smtp,
                   loopVars, warned>>

ScraperNext ==
    ScGetlink \/ ScFind \/ ScDownload \/ ScExtract \/ ScWrite \/ ScRunprog

\* ------------------------------------------------------------ fetch_pdfs.py
\* The files an earlier fetch_pdfs run, in second 1, left behind.
EarlierFetch ==
    [p \in Paths |->
        IF p \in {PdfPath(n, 1) : n \in TargetNames}
        THEN PdfBytes(Text(<<"A">>, TRUE), TRUE)
        ELSE IF p \in {TextPath(n, 1) : n \in TargetNames}
        THEN TextFile(Text(<<"A">>, TRUE))
        ELSE Missing]

\* fetch_pdfs.DEFAULT_PDFS
DEFAULT_PDFS ==
    <<[name |-> "CS_Criteria",
       url |-> "https://www.abet.org/wp-content/uploads/2023/05/2024-2025_CAC_Criteria.pdf"],
      [name |-> "CSE_Criteria",
       url |-> "https://www.abet.org/wp-content/uploads/2023/05/2024-2025_EAC_Criteria.pdf"]>>

\* The --urls tried (<<>>: not given) and the --names tried (<<>>: not
\* given).
UrlArgs ==
    {<<>>, <<"https://example.com/file1.pdf">>,
     <<"https://example.com/file1.pdf", "https://example.com/file2.pdf">>,
     <<"https://example.com/file2.pdf", "https://example.com/file1.pdf">>}

NameArgs ==
    {<<>>, <<"CS_Criteria">>, <<"CSE_Criteria", "CS_Criteria">>,
     <<"CS_Criteria", "CS_Criteria">>}

\* main: names = args.names if args.names else [f'PDF_{i+1}' for i in ...]
Names(a) ==
    IF a.names # <<>> THEN a.names
    ELSE [k \in 1..Len(a.urls) |-> "PDF_" \o ToString(k)]

\* main: with --urls, len(names) != len(args.urls)
NamesMismatch(a) == a.urls # <<>> /\ Len(Names(a)) # Len(a.urls)

\* main: pdfs, the zip of names and URLs, or DEFAULT_PDFS without --urls.
Pdfs(a) ==
    IF a.urls # <<>>
    THEN [k \in 1..Min2(Len(Names(a)), Len(a.urls)) |->
             [name |-> Names(a)[k], url |-> a.urls[k]]]
    ELSE DEFAULT_PDFS

\* python fetch_pdfs.py [--urls ... [--names ...]] [--no-text]
InitFetchPdfs ==
    /\ prog = "fetch_pdfs"
    /\ \E nt \in BOOLEAN, urls \in UrlArgs, names \in NameArgs :
          argv = [NoArgs EXCEPT !.mode = "fetch", !.no_text = nt,
                                !.urls = urls, !.names = names]
    /\ pc = "fp_args"
    /\ clock \in Stamps
    /\ fs \in {NoFiles, EarlierFetch}
    /\ InitLocals
    /\ NoUnit
    /\ NoTool

\* FpReturn with the loop left at the first target that failed.
FpReturnStopOnFailure(ok) ==
    /\ results' = Append(results, ok)
    /\ success_count' = success_count + (IF ok THEN 1 ELSE 0)
    /\ fail_count' = fail_count + (IF ok THEN 0 ELSE 1)
    /\ IF ok /\ i < Len(Pdfs(argv))
       THEN i' = i + 1 /\ pc' = "fp_download" /\ UNCHANGED exit_code
       ELSE i' = i /\ Exit(IF fail_count + (IF ok THEN 0 ELSE 1) = 0 THEN 0 ELSE 1)

\* FpArgs without the comparison of the two lengths.
FpArgsUnchecked ==
    /\ pc = "fp_args"
    /\ pc' = "fp_download" /\ i' = 1 /\ UNCHANGED <<exit_code, reported>>
    /\ UNCHANGED <<runVars, fs, fs0, clock, netVars, diffVars, smtp,
                   loopVars, warned, steps>>

\* FpReturn with main ending in "return 0" whatever failed.
FpReturnAlwaysZero(ok) ==
    /\ results' = Append(results, ok)
    /\ success_count' = success_count + (IF ok THEN 1 ELSE 0)
    /\ fail_count' = fail_count + (IF ok THEN 0 ELSE 1)
    /\ IF i < Len(Pdfs(argv))
       THEN i' = i + 1 /\ pc' = "fp_download" /\ UNCHANGED exit_code
       ELSE i' = i /\ Exit(0)

\* fetch_pdf returns ok to main's loop: the counter is bumped and the loop
\* goes to the next target, or ends with "return 0 if fail_count == 0 else 1".
FpReturn(ok) ==
    /\ results' = Append(results, ok)
    /\ success_count' = success_count + (IF ok THEN 1 ELSE 0)
    /\ fail_count' = fail_count + (IF ok THEN 0 ELSE 1)
    /\ IF i < Len(Pdfs(argv))
       THEN i' = i + 1 /\ pc' = "fp_download" /\ UNCHANGED exit_code
       ELSE i' = i /\ Exit(IF fail_count + (IF ok THEN 0 ELSE 1) = 0 THEN 0 ELSE 1)

\* except Exception as e: logger.error(...); return False
FpFail(s) ==
    /\ FpReturn(FALSE)
    /\ reported' = TRUE
    /\ steps' = steps \o <<Step(i, s), Step(i, "ERROR")>>

\* main: with --urls, len(names) != len(args.urls) logs an error and
\* returns 1; else the loop over the targets starts.
FpArgs ==
    /\ pc = "fp_args"
    /\ IF NamesMismatch(argv)
       THEN Exit(1) /\ reported' = TRUE /\ UNCHANGED i
       ELSE pc' = "fp_download" /\ i' = 1 /\ UNCHANGED <<exit_code, reported>>
    /\ UNCHANGED <<runVars, fs, fs0, clock, netVars, diffVars, smtp,
                   loopVars, warned, steps>>

\* fetch_pdf: pdf_bytes = get_pdf_from_url(url); url keeps, per target, the
\* URL that was requested.
FpDownload ==
    /\ pc = "fp_download"
    /\ url' = [url EXCEPT ![i] = Pdfs(argv)[i].url]
    /\ \/ /\ FpFail("FETCH")
          /\ UNCHANGED pdf_bytes
       \/ /\ \E doc \in RemoteDocs : pdf_bytes' = doc
          /\ pc' = "fp_save_pdf"
          /\ steps' = Append(steps, Step(i, "FETCH"))
          /\ UNCHANGED <<i, loopVars, exit_code, reported>>
    /\ UNCHANGED <<runVars, fs, fs0, clock, text, timestamp, diffVars,
                   smtp, warned>>

\* FpSavePdf with the text extracted whatever --no-text says.
FpSavePdfThenExtract ==
    /\ pc = "fp_save_pdf"
    /\ \E ts \in clock..MaxStamp :
          /\ clock' = ts
          /\ timestamp' = ts
          /\ fs' = [fs EXCEPT ![PdfPath(Pdfs(argv)[i].name, ts)] = pdf_bytes]
    /\ steps' = Append(steps, Step(i, "PERSIST_PDF"))
    /\ pc' = "fp_extract" /\ UNCHANGED <<i, loopVars, exit_code>>
    /\ UNCHANGED <<runVars, fs0, url, pdf_bytes, text, diffVars, smtp,
                   reported, warned>>

\* fetch_pdf: timestamp = datetime.now()...; save_file(pdf_bytes, pdf_path);
\* without extract_text it returns True.
FpSavePdf ==
    /\ pc = "fp_save_pdf"
    /\ \E ts \in clock..MaxStamp :
          /\ clock' = ts
          /\ timestamp' = ts
          /\ fs' = [fs EXCEPT ![PdfPath(Pdfs(argv)[i].name, ts)] = pdf_bytes]
    /\ steps' = Append(steps, Step(i, "PERSIST_PDF"))
    /\ IF argv.no_text
       THEN FpReturn(TRUE)
       ELSE pc' = "fp_extract" /\ UNCHANGED <<i, loopVars, exit_code>>
    /\ UNCHANGED <<runVars, fs0, url, pdf_bytes, text, diffVars, smtp,
                   reported, warned>>

\* fetch_pdf: text = read_pdf_text(pdf_bytes)
FpExtract ==
    /\ pc = "fp_extract"
    /\ IF ~pdf_bytes.valid
       THEN FpFail("EXTRACT") /\ UNCHANGED text
       ELSE /\ text' = FileText(pdf_bytes)
            /\ pc' = "fp_save_text"
            /\ steps' = Append(steps, Step(i, "EXTRACT"))
            /\ UNCHANGED <<i, loopVars, exit_code, reported>>
    /\ UNCHANGED <<runVars, fs, fs0, clock, url, pdf_bytes, timestamp,
                   diffVars, smtp, warned>>

\* fetch_pdf: save_text(text, text_path); return True
FpSaveText ==
    /\ pc = "fp_save_text"
    /\ fs' = [fs EXCEPT ![TextPath(Pdfs(argv)[i].name, timestamp)] = TextFile(text)]
    /\ steps' = Append(steps, Step(i, "PERSIST"))
    /\ FpReturn(TRUE)
    /\ UNCHANGED <<runVars, fs0, clock, netVars, diffVars, smtp, reported,
                   warned>>

FetchPdfsNext == FpArgs \/ FpDownload \/ FpSavePdf \/ FpExtract \/ FpSaveText

\* ------------------------------------------------------------ read_pdf_text
\* Most pages of a PDF handed to read_pdf_text.
MaxPages == 2

\* What page.extract_text() can do for one page: return the text of the page,
\* return '' for a page without text, or raise on a page it cannot parse.
PageKinds ==
    {[raises |-> FALSE, text |-> "A"], [raises |-> FALSE, text |-> "B"],
     [raises |-> FALSE, text |-> ""], [raises |-> TRUE, text |-> ""]}

\* text = read_pdf_text(pdf_bytes), called on its own with a PDF the reader
\* opens.
InitReadPdfText ==
    /\ prog = "read_pdf_text"
    /\ argv = NoArgs
    /\ pc = "rp_page"
    /\ clock = 1
    /\ fs = NoFiles
    /\ InitLocals
    /\ pdf_pages \in SeqsUpTo(PageKinds, MaxPages)
    /\ text_parts = <<>>
    /\ extracted = ""
    /\ html = <<>>
    /\ link_text = ""
    /\ pdf_url = ""
    /\ NoTool

\* '\n'.join(parts) for parts that are str.
RECURSIVE JoinPages(_)
JoinPages(parts) ==
    IF parts = <<>> THEN ""
    ELSE IF Len(parts) = 1 THEN parts[1]
    ELSE parts[1] \o "\n" \o JoinPages(Tail(parts))

\* for page in reader.pages: text = page.extract_text();
\* text_parts.append(text).  Nothing catches what extract_text raises.
RpPage ==
    /\ pc = "rp_page"
    /\ Len(text_parts) < Len(pdf_pages)
    /\ IF pdf_pages[Len(text_parts) + 1].raises
       THEN AbortAfter(0, "EXTRACT") /\ UNCHANGED text_parts
       ELSE /\ text_parts' =
                  Append(text_parts, pdf_pages[Len(text_parts) + 1].text)
            /\ UNCHANGED <<pc, exit_code, reported, steps>>
    /\ UNCHANGED <<prog, argv, past, pdf_pages, extracted, html, link_text,
                   pdf_url, toolVars, fs, fs0, clock, i, netVars, diffVars, smtp,
                   loopVars, warned>>

\* return '\n'.join(text_parts)
RpReturn ==
    /\ pc = "rp_page"
    /\ Len(text_parts) = Len(pdf_pages)
    /\ extracted' = JoinPages(text_parts)
    /\ steps' = Append(steps, Step(0, "EXTRACT"))
    /\ Exit(0)
    /\ UNCHANGED <<prog, argv, past, pdf_pages, text_parts, html, link_text,
                   pdf_url, toolVars, fs, fs0, clock, i, netVars, diffVars, smtp,
                   loopVars, reported, warned>>

ReadPdfTextNext == RpPage \/ RpReturn

\* ----------------------------------------------------- find_pdf_url_on_page
\* Strings whose letters matter are sequences of characters.
DownloadTheCriteria ==
    <<"D", "o", "w", "n", "l", "o", "a", "d", " ", "t", "h", "e", " ",
      "C", "r", "i", "t", "e", "r", "i", "a">>

DownloadTheCriteriaLower ==
    <<"d", "o", "w", "n", "l", "o", "a", "d", " ", "t", "h", "e", " ",
      "c", "r", "i", "t", "e", "r", "i", "a">>

About == <<"A", "b", "o", "u", "t">>

Button == <<"b", "u", "t", "t", "o", "n">>

\* c.lower() for the letters used here.
LowerChar(c) ==
    CASE c = "A" -> "a"
      [] c = "C" -> "c"
      [] c = "D" -> "d"
      [] OTHER -> c

\* s.lower()
Lower(str) == [k \in 1..Len(str) |-> LowerChar(str[k])]

\* sub in s
Contains(sub, str) ==
    \E off \in 0..(Len(str) - Len(sub)) :
        SubSeq(str, off + 1, off + Len(sub)) = sub

\* tag.string of an anchor with no single string child, and tag.get('class')
\* of an anchor without the attribute.
None == <<"None">>

\* tag.get('href') of an anchor without the attribute.
NoHref == "None"

\* The anchors a page can hold: their string, href and class.
Anchors ==
    [string : {DownloadTheCriteria, DownloadTheCriteriaLower, About, None},
     href : {NoHref, "/criteria.pdf", "https://cdn.abet.org/criteria.pdf"},
     class : {None, Button}]

\* Most anchors on a page.
MaxAnchors == 2

PageUrl == "https://www.abet.org/accreditation/criteria/"

\* urljoin(page_url, href) for an absolute URL and for an absolute path.
Urljoin(page_url, href) ==
    IF href = "https://cdn.abet.org/criteria.pdf" THEN href
    ELSE "https://www.abet.org" \o href

\* soup.find(...): of the positions of the anchors the search accepts, the
\* first in document order, or 0 for None.
FirstAnchor(hits) ==
    IF hits = {} THEN 0
    ELSE CHOOSE k \in hits : \A m \in hits : k <= m

\* abet_pdf_simple.find_pdf_url_on_page once the page is parsed: the first
\* anchor whose string holds link_text, as it is written; without one, or
\* when that one has no href, the first anchor of class 'button'; the
\* resolved href, or "ValueError".
FindSimple(page, lt) ==
    LET download_link ==
            FirstAnchor({k \in 1..Len(page) :
                            /\ page[k].string # None
                            /\ page[k].string # <<>>
                            /\ Contains(lt, page[k].string)})
        button_link ==
            FirstAnchor({k \in 1..Len(page) : page[k].class = Button})
    IN  IF download_link # 0 /\ page[download_link].href # NoHref
        THEN Urljoin(PageUrl, page[download_link].href)
        ELSE IF button_link # 0 /\ page[button_link].href # NoHref
        THEN Urljoin(PageUrl, page[button_link].href)
        ELSE "ValueError"

\* abet_scraper.find_pdf_url_on_page once the page is parsed: link_text is
\* not used; the first anchor with an href whose string, in lower case,
\* holds 'download the criteria'; the resolved href, or "ValueError".
FindScraper(page, lt) ==
    LET button_link ==
            FirstAnchor({k \in 1..Len(page) :
                            /\ page[k].href # NoHref
                            /\ page[k].string # None
                            /\ page[k].string # <<>>
                            /\ Contains(Lower(DownloadTheCriteria),
                                        Lower(page[k].string))})
    IN  IF button_link # 0 /\ page[button_link].href # NoHref
        THEN Urljoin(PageUrl, page[button_link].href)
        ELSE "ValueError"

\* scrape_pdf_from_page(page_url, link_text) of abet_pdf_simple ("simple") or
\* of abet_scraper ("scraper"), on a page that was fetched and parsed.
InitFindPdfUrl ==
    /\ prog = "find_pdf_url_on_page"
    /\ \E m \in {"simple", "scraper"} : argv = [NoArgs EXCEPT !.mode = m]
    /\ pc = "fu_find"
    /\ clock = 1
    /\ fs = NoFiles
    /\ InitLocals
    /\ pdf_pages = <<>>
    /\ text_parts = <<>>
    /\ extracted = ""
    /\ html \in SeqsUpTo(Anchors, MaxAnchors)
    /\ link_text \in {DownloadTheCriteria, DownloadTheCriteriaLower, About, <<>>}
    /\ pdf_url = ""
    /\ NoTool

\* pdf_url = find_pdf_url_on_page(page_url, link_text); the ValueError ends
\* scrape_pdf_from_page.
FuFind ==
    /\ pc = "fu_find"
    /\ LET found == IF argv.mode = "simple" THEN FindSimple(html, link_text)
                    ELSE FindScraper(html, link_text)
       IN  IF found = "ValueError"
           THEN AbortAfter(0, "FIND") /\ UNCHANGED pdf_url
           ELSE /\ pdf_url' = found
                /\ pc' = "fu_download"
                /\ steps' = Append(steps, Step(0, "FIND"))
                /\ UNCHANGED <<exit_code, reported>>
    /\ UNCHANGED <<prog, argv, past, pdf_pages, text_parts, extracted, html,
                   link_text, toolVars, fs, fs0, clock, i, netVars, diffVars, smtp,
                   loopVars, warned>>

\* pdf_bytes = get_pdf_from_url(pdf_url): the download request is sent.
FuDownload ==
    /\ pc = "fu_download"
    /\ steps' = Append(steps, Step(0, "FETCH"))
    /\ Exit(0)
    /\ UNCHANGED <<runVars, fs, fs0, clock, i, netVars, diffVars, smtp,
                   loopVars, reported, warned>>

FindPdfUrlNext == FuFind \/ FuDownload

\* ------------------------------------------------- abetReportGenerator.py
\* Python values as json.load and os.getenv deliver them: the type, and the
\* number or the characters held.  A float holds its value in tenths.
PyNone == [type |-> "NoneType", n |-> 0, s |-> <<>>]

PyBool(b) == [type |-> "bool", n |-> IF b THEN 1 ELSE 0, s |-> <<>>]

PyInt(n) == [type |-> "int", n |-> n, s |-> <<>>]

PyFloat(tenths) == [type |-> "float", n |-> tenths, s |-> <<>>]

PyStr(chars) == [type |-> "str", n |-> 0, s |-> chars]

\* bool(x)
Truthy(x) ==
    CASE x.type = "NoneType" -> FALSE
      [] x.type = "str" -> x.s # <<>>
      [] OTHER -> x.n # 0

\* The str of a sequence of characters.
RECURSIVE Str(_)
Str(chars) == IF chars = <<>> THEN "" ELSE Head(chars) \o Str(Tail(chars))

\* What str.strip() removes.
Whitespace == {" ", "\t", "\n"}

RECURSIVE LStrip(_, _)
LStrip(chars, drop) ==
    IF chars # <<>> /\ Head(chars) \in drop THEN LStrip(Tail(chars), drop)
    ELSE chars

RECURSIVE RStrip(_, _)
RStrip(chars, drop) ==
    IF chars # <<>> /\ chars[Len(chars)] \in drop
    THEN RStrip(SubSeq(chars, 1, Len(chars) - 1), drop)
    ELSE chars

\* chars.strip(drop)
Strip(chars, drop) == RStrip(LStrip(chars, drop), drop)

NA == <<"N", "A">>

\* The lines of a table, one per row, the cells separated by "|".
RECURSIVE JoinCells(_)
JoinCells(row) ==
    IF row = <<>> THEN ""
    ELSE IF Len(row) = 1 THEN row[1]
    ELSE row[1] \o "|" \o JoinCells(Tail(row))

\* The file doc.save(path) leaves behind.
DocxFile(d) ==
    [exists |-> TRUE, kind |-> "docx", valid |-> TRUE,
     lines |-> <<d.outcome_status_line, d.changes_tail>>
               \o [k \in 1..Len(d.table) |-> JoinCells(d.table[k])],
     nl |-> FALSE]

\* The document TEMPLATE_DOCX_B64 decodes to: its "Outcome was" paragraph,
\* the tail of its "If outcome was not met, ..." paragraph and its table.
TemplateDoc ==
    [outcome_status_line |-> "Outcome was met",
     changes_tail |-> "NA",
     table |-> << <<"Percentage", "Number of students">>,
                  <<"100%-70%", "48">>,
                  <<"Below 70%", "2">> >>]

\* A file of size 0, and a file that is no DOCX.
EmptyFile == TextFile(Text(<<>>, FALSE))

OtherFile == [exists |-> TRUE, kind |-> "other", valid |-> FALSE,
              lines |-> <<"x">>, nl |-> FALSE]

\* os.path.exists(path) and os.path.getsize(path) > 0
ExistsNonEmpty(f) == f.exists /\ f # EmptyFile

\* ensure_template_docx writing the template whatever is at the path.
EnsureTemplateDocxAlways(disk) ==
    [disk EXCEPT ![TemplatePath] = DocxFile(TemplateDoc)]

\* ensure_template_docx(path) on the disk `disk`: the disk it leaves.
\* TEMPLATE_DOCX_B64 is not empty and decodes.
EnsureTemplateDocx(disk) ==
    IF ExistsNonEmpty(disk[TemplatePath]) THEN disk
    ELSE [disk EXCEPT ![TemplatePath] = DocxFile(TemplateDoc)]

\* What an input holds for the overall summary: under "assessment_summary",
\* under "results"/"overall_summary", or nowhere.
SummaryShapes == {"assessment_summary", "overall_summary", "none"}

\* The values of outcome_met tried: true, false, null, 0 and "false".
OutcomeValues ==
    {PyBool(TRUE), PyBool(FALSE), PyNone, PyInt(0), PyStr(<<"f", "a", "l", "s", "e">>)}

\* The inputs tried: 10 students assessed, 7 of them competent.
JsInputs ==
    {[shape |-> sh, outcome_met |-> o, sample_size |-> PyInt(10),
      number_competent |-> PyInt(7)] :
        sh \in {"assessment_summary", "overall_summary"}, o \in OutcomeValues}
    \cup {[shape |-> "none", outcome_met |-> PyNone, sample_size |-> PyNone,
           number_competent |-> PyNone]}

\* get_overall_summary(js) followed by the .get(key, default) of its callers:
\* without a summary the dict is empty and the defaults apply.
GetOverallSummary(js) ==
    IF js.shape = "none"
    THEN [outcome_met |-> PyNone, sample_size |-> PyStr(<<"N", "/", "A">>),
          number_competent |-> PyStr(<<"N", "/", "A">>)]
    ELSE [outcome_met |-> js.outcome_met, sample_size |-> js.sample_size,
          number_competent |-> js.number_competent]

\* os.getenv("OPENAI_API_KEY"): unset, empty, a space in quotes, a key, a
\* key in quotes with a space before it.
ApiKeys == {PyNone, PyStr(<<>>), PyStr(<<"\"", " ", "\"">>), PyStr(<<"s", "k", "-", "1">>), PyStr(<<" ", "\"", "s", "k", "-", "1", "\"">>)}

\* What client.responses.create can do: raise, or return a response whose
\* output_text is None, empty, blank or text with spaces around it.
ApiOutcomes ==
    {[raises |-> TRUE, output_text |-> PyNone],
     [raises |-> FALSE, output_text |-> PyNone],
     [raises |-> FALSE, output_text |-> PyStr(<<>>)],
     [raises |-> FALSE, output_text |-> PyStr(<<" ", " ">>)],
     [raises |-> FALSE, output_text |-> PyStr(<<" ", "A", "d", "d", " ", "l", "a", "b", "s", ".", " ">>)]}

\* x or "NA", for a str or None x.
OrNA(x) == IF Truthy(x) THEN x.s ELSE NA

\* generate_feedback_with_openai with the API's failure giving '' .
GenerateFeedbackNoDefault(key, outcome) ==
    LET api_key_ ==
            IF Truthy(key)
            THEN Strip(Strip(Strip(key.s, Whitespace), {"\""}), {"'"})
            ELSE <<>>
    IN  IF api_key_ = <<>> THEN [called |-> FALSE, text |-> NA]
        ELSE IF outcome.raises THEN [called |-> TRUE, text |-> <<>>]
        ELSE [called |-> TRUE,
              text |-> Strip(IF Truthy(outcome.output_text)
                             THEN outcome.output_text.s ELSE <<>>, Whitespace)]

\* generate_feedback_with_openai(summary_text) with the key `key` in the
\* environment while the API does `outcome`: whether the API was called, and
\* the str returned.
GenerateFeedbackWithOpenai(key, outcome) ==
    LET api_key_ ==
            IF Truthy(key)
            THEN Strip(Strip(Strip(key.s, Whitespace), {"\""}), {"'"})
            ELSE <<>>
        stripped ==
            Strip(IF Truthy(outcome.output_text)
                  THEN outcome.output_text.s ELSE <<>>, Whitespace)
    IN  IF api_key_ = <<>> THEN [called |-> FALSE, text |-> NA]
        ELSE IF outcome.raises THEN [called |-> TRUE, text |-> NA]
        ELSE [called |-> TRUE,
              text |-> IF stripped # <<>> THEN stripped ELSE NA]

\* main's test with "not outcome_met" in the place of "outcome_met is False".
NeedsFeedbackFalsy(outcome_met) == ~Truthy(outcome_met)

\* main: outcome_met is False
NeedsFeedback(outcome_met) == outcome_met = PyBool(FALSE)

Digits == <<"0", "1", "2", "3", "4", "5", "6", "7", "8", "9">>

IsDigit(c) == \E d \in 1..10 : Digits[d] = c

DigitValue(c) == (CHOOSE d \in 1..10 : Digits[d] = c) - 1

\* int(ds) for a sequence of digits; 0 for the empty one.
RECURSIVE DigitsValue(_)
DigitsValue(ds) ==
    IF ds = <<>> THEN 0
    ELSE 10 * DigitsValue(SubSeq(ds, 1, Len(ds) - 1)) + DigitValue(ds[Len(ds)])

\* int(float(s)) for a stripped s: a sign, digits and a point are read, the
\* fraction is cut off; anything else makes float raise ValueError.  (The
\* spellings of floats with letters or underscores are not among the inputs.)
IntOfFloatStr(chars) ==
    LET signed == chars # <<>> /\ chars[1] \in {"+", "-"}
        body == IF signed THEN Tail(chars) ELSE chars
        points == {k \in 1..Len(body) : body[k] = "."}
        point == IF points = {} THEN Len(body) + 1
                 ELSE CHOOSE k \in points : TRUE
        whole == SubSeq(body, 1, point - 1)
        frac == SubSeq(body, point + 1, Len(body))
    IN  IF \/ Cardinality(points) > 1
           \/ \E k \in 1..Len(body) : ~IsDigit(body[k]) /\ body[k] # "."
           \/ Len(whole) + Len(frac) = 0
        THEN [raises |-> TRUE, n |-> 0]
        ELSE [raises |-> FALSE,
              n |-> (IF signed /\ chars[1] = "-" THEN -1 ELSE 1)
                    * DigitsValue(whole)]

\* int(x) for a float x held in tenths: towards zero.
IntOfTenths(t) == IF t >= 0 THEN t \div 10 ELSE -((-t) \div 10)

\* safe_int(x): PyNone or a PyInt.
SafeInt(x) ==
    CASE x.type = "NoneType" -> PyNone
      [] x.type = "bool" -> PyNone
      [] x.type = "int" -> PyInt(x.n)
      [] x.type = "float" -> PyInt(IntOfTenths(x.n))
      [] x.type = "str" ->
            LET st == Strip(x.s, Whitespace)
            IN  IF st = <<>> \/ IntOfFloatStr(st).raises THEN PyNone
                ELSE PyInt(IntOfFloatStr(st).n)

\* Largest count a table cell of the template holds.
MaxCount == 50

\* re.fullmatch(r"\d+", t) for the cell texts that occur.
IsNumeric(t) == t \in {ToString(n) : n \in 0..MaxCount}

\* thr_num = re.sub(r"[^0-9.]", "", str(thr))
ThrNum(thr) == SelectSeq(thr, LAMBDA c : IsDigit(c) \/ c = ".")

\* label_variants["competent"] and label_variants["below"]
CompetentLabels(thr) ==
    {IF ThrNum(thr) # <<>> THEN "100%-" \o Str(ThrNum(thr)) \o "%"
     ELSE "100%-70%",
     "100%-70%", "100% - 70%", "70%-100%", "70% - 100%"}

BelowLabels(thr) ==
    {IF ThrNum(thr) # <<>> THEN "Below " \o Str(ThrNum(thr)) \o "%"
     ELSE "Below 70%",
     "Below 70%", "Below70%", "Below 70 %"}

\* The first position of row whose text is in labels, or 0.
FirstIn(row, labels) ==
    IF \A k \in 1..Len(row) : row[k] \notin labels THEN 0
    ELSE CHOOSE k \in 1..Len(row) :
             row[k] \in labels /\ \A m \in 1..(k - 1) : row[m] \notin labels

\* The body of update_score_distribution_table's loop for one row: the row
\* type is that of its first label; new_val goes to the first cell that
\* holds digits only, else to the cell right of the label.
UpdateRow(row, thr, n_comp, n_below) ==
    LET first == FirstIn(row, CompetentLabels(thr) \cup BelowLabels(thr))
        row_type == IF first = 0 THEN "None"
                    ELSE IF row[first] \in CompetentLabels(thr)
                    THEN "competent" ELSE "below"
        label_idx == FirstIn(row, IF row_type = "competent"
                                  THEN CompetentLabels(thr)
                                  ELSE BelowLabels(thr))
        new_val == ToString(IF row_type = "competent" THEN n_comp ELSE n_below)
        numeric == FirstIn(row, {row[k] : k \in {m \in 1..Len(row) :
                                                    IsNumeric(row[m])}})
    IN  IF row_type = "None" THEN row
        ELSE IF numeric # 0 THEN [row EXCEPT ![numeric] = new_val]
        ELSE IF label_idx + 1 <= Len(row)
        THEN [row EXCEPT ![label_idx + 1] = new_val]
        ELSE row

\* update_score_distribution_table with n_below = n_total - n_comp.
UpdateScoreDistributionTableUnclamped(table, thr, sample_size, number_competent) ==
    LET n_total == SafeInt(sample_size)
        n_comp == SafeInt(number_competent)
    IN  IF n_total = PyNone \/ n_comp = PyNone THEN table
        ELSE [k \in 1..Len(table) |->
                 UpdateRow(table[k], thr, n_comp.n, n_total.n - n_comp.n)]

\* update_score_distribution_table(doc, thr, sample_size, number_competent):
\* the table it leaves.
UpdateScoreDistributionTable(table, thr, sample_size, number_competent) ==
    LET n_total == SafeInt(sample_size)
        n_comp == SafeInt(number_competent)
    IN  IF n_total = PyNone \/ n_comp = PyNone THEN table
        ELSE [k \in 1..Len(table) |->
                 UpdateRow(table[k], thr, n_comp.n,
                           Max2(0, n_total.n - n_comp.n))]

\* get_threshold(js) of the inputs tried.
DefaultThreshold == <<"7", "0", "%">>

\* update_section1_in_doc(doc, js, feedback_text): the "Outcome was" line,
\* the tail after the "If outcome was not met, ..." question and the score
\* distribution table it leaves in doc.
UpdateSection1InDoc(d, js, feedback) ==
    LET overall == GetOverallSummary(js)
        outcome_met == overall.outcome_met
    IN  [outcome_status_line |->
             IF outcome_met = PyBool(TRUE) THEN "Outcome was met"
             ELSE IF outcome_met = PyBool(FALSE) THEN "Outcome was not met"
             ELSE "Outcome was N/A",
         changes_tail |->
             IF outcome_met = PyBool(FALSE)
             THEN LET stripped == Strip(OrNA(feedback), Whitespace)
                  IN  Str(IF stripped # <<>> THEN stripped ELSE NA)
             ELSE "NA",
         table |-> UpdateScoreDistributionTable(d.table, DefaultThreshold,
                                                overall.sample_size,
                                                overall.number_competent)]

\* The template file an earlier run, or the user, left at template_path.
TemplateFiles == {Missing, EmptyFile, DocxFile(TemplateDoc), OtherFile}

\* python abetReportGenerator.py, with the inputs load_json_files could read.
InitReportGenerator ==
    /\ prog = "abetReportGenerator"
    /\ argv = NoArgs
    /\ pc = "gen_template"
    /\ clock = 1
    /\ \E f \in TemplateFiles : fs = [NoFiles EXCEPT ![TemplatePath] = f]
    /\ InitLocals
    /\ NoUnit
    /\ inputs \in SeqsUpTo(JsInputs, MaxInputs)
    /\ api_key \in ApiKeys
    /\ api_calls = <<>>
    /\ feedback_text = PyNone
    /\ document = <<>>
    /\ reports = <<>>
    /\ call_args = <<>>
    /\ returned = <<>>

\* main: ensure_template_docx(template_path); data = load_json_files(...)
GenTemplate ==
    /\ pc = "gen_template"
    /\ fs' = EnsureTemplateDocx(fs)
    /\ i' = 1
    /\ pc' = IF inputs = <<>> THEN "gen_csv" ELSE "gen_feedback"
    /\ UNCHANGED <<prog, argv, past, unitVars, toolVars, fs0, clock, netVars,
                   diffVars, smtp, loopVars, exit_code, reported, warned,
                   steps>>

\* main, for one input: feedback_text = None; if outcome_met is False:
\* feedback_text = generate_feedback_with_openai(summary_text)
GenFeedback ==
    /\ pc = "gen_feedback"
    /\ IF NeedsFeedback(GetOverallSummary(inputs[i]).outcome_met)
       THEN \E outcome \in ApiOutcomes :
               LET r == GenerateFeedbackWithOpenai(api_key, outcome)
               IN  /\ feedback_text' = PyStr(r.text)
                   /\ api_calls' =
                          IF r.called
                          THEN Append(api_calls,
                                      [input |-> i, response |-> outcome])
                          ELSE api_calls
       ELSE feedback_text' = PyNone /\ UNCHANGED api_calls
    /\ pc' = "gen_report"
    /\ UNCHANGED <<prog, argv, past, unitVars, inputs, api_key, document,
                   reports, call_args, returned, fs, fs0, clock, i, netVars,
                   diffVars, smtp, loopVars, exit_code, reported, warned,
                   steps>>

\* main, for the same input: doc = Document(template_path), which raises on a
\* file that is no DOCX; update_section1_in_doc(doc, js, feedback_text);
\* doc.save(out_path).
GenReport ==
    /\ pc = "gen_report"
    /\ IF fs[TemplatePath] # DocxFile(TemplateDoc)
       THEN /\ Exit(1)
            /\ reported' = TRUE
            /\ UNCHANGED <<document, reports, fs, i>>
       ELSE /\ document' = UpdateSection1InDoc(TemplateDoc, inputs[i],
                                               feedback_text)
            /\ reports' = Append(reports, [input |-> i, document |-> document'])
            /\ fs' = [fs EXCEPT ![ReportPath(i)] = DocxFile(document')]
            /\ IF i < Len(inputs)
               THEN i' = i + 1 /\ pc' = "gen_feedback"
               ELSE i' = i /\ pc' = "gen_csv"
            /\ UNCHANGED <<exit_code, reported>>
    /\ UNCHANGED <<prog, argv, past, unitVars, inputs, api_key, api_calls,
                   feedback_text, call_args, returned, fs0, clock, netVars,
                   diffVars, smtp, loopVars, warned, steps>>

\* main: if summary_records: the CSV, one row per report, is written.
GenCsv ==
    /\ pc = "gen_csv"
    /\ fs' = IF reports = <<>> THEN fs
             ELSE [fs EXCEPT ![OutputCsv] =
                      TextFile(Text(<<"input_file,contributing_assignments,generated_at">>
                                    \o [k \in 1..Len(reports) |->
                                           "input" \o ToString(k) \o ".json"],
                                    TRUE))]
    /\ Exit(0)
    /\ UNCHANGED <<prog, argv, past, unitVars, toolVars, fs0, clock, i,
                   netVars, diffVars, smtp, loopVars, reported, warned, steps>>

\* The generator is run again, later, on the disk the earlier run left and
\* with the same inputs and environment.
GenRerun ==
    /\ prog = "abetReportGenerator"
    /\ StartOver("gen_template", fs)
    /\ api_calls' = <<>>
    /\ feedback_text' = PyNone
    /\ document' = <<>>
    /\ reports' = <<>>
    /\ UNCHANGED <<inputs, api_key, call_args, returned>>

ReportGeneratorNext ==
    GenTemplate \/ GenFeedback \/ GenReport \/ GenCsv \/ GenRerun

\* ------------------------------------------ update_score_distribution_table
\* Values of sample_size and number_competent that safe_int turns down:
\* None, booleans, empty, blank and non-numeric strings.
Unparsable ==
    {PyNone,
     PyBool(TRUE),
     PyBool(FALSE),
     PyStr(<<>>),
     PyStr(<<" ", " ">>),
     PyStr(<<"a", "b", "c">>),
     PyStr(<<"N", "/", "A">>),
     PyStr(<<"1", ".", "2", ".", "3">>),
     PyStr(<<"-">>)}

\* Values it accepts, each with the int Python gives for it.
Parsable ==
    {<<PyInt(10), 10>>,
     <<PyInt(7), 7>>,
     <<PyInt(12), 12>>,
     <<PyInt(0), 0>>,
     <<PyFloat(75), 7>>,
     <<PyFloat(-5), 0>>,
     <<PyStr(<<" ", "9", " ">>), 9>>,
     <<PyStr(<<"8", ".", "9">>), 8>>,
     <<PyStr(<<"-", "3">>), -3>>,
     <<PyStr(<<"+", "4">>), 4>>,
     <<PyStr(<<".", "5">>), 0>>,
     <<PyStr(<<"5", ".">>), 5>>}

\* The score distribution table of the template, and the same with the
\* counts not filled in.
Tables ==
    {TemplateDoc.table,
     << <<"Percentage", "Number of students">>,
        <<"100%-70%", "">>,
        <<"Below 70%", "">> >>}

\* update_score_distribution_table(doc, thr, sample_size, number_competent)
\* called on its own.
InitUpdateTable ==
    /\ prog = "update_score_distribution_table"
    /\ argv = NoArgs
    /\ pc = "tbl_update"
    /\ clock = 1
    /\ fs = NoFiles
    /\ InitLocals
    /\ NoUnit
    /\ inputs = <<>>
    /\ api_key = <<>>
    /\ api_calls = <<>>
    /\ feedback_text = <<>>
    /\ \E t \in Tables : document = [TemplateDoc EXCEPT !.table = t]
    /\ reports = <<>>
    /\ \E thr \in {<<"7", "0", "%">>, <<"8", "0", "%">>},
          s \in Unparsable \cup {v[1] : v \in Parsable},
          c \in Unparsable \cup {v[1] : v \in Parsable} :
          call_args = [thr |-> thr, sample_size |-> s, number_competent |-> c,
                       table |-> document.table]
    /\ returned = <<>>

\* The call: the table of doc is edited in place and None is returned.
TblUpdate ==
    /\ pc = "tbl_update"
    /\ document' =
           [document EXCEPT !.table =
               UpdateScoreDistributionTable(document.table, call_args.thr,
                                            call_args.sample_size,
                                            call_args.number_competent)]
    /\ returned' = PyNone
    /\ Exit(0)
    /\ UNCHANGED <<prog, argv, past, unitVars, inputs, api_key, api_calls,
                   feedback_text, reports, call_args, fs, fs0, clock, i,
                   netVars, diffVars, smtp, loopVars, reported, warned, steps>>

UpdateTableNext == TblUpdate

\* --------------------------------------------------------- schedule_pdfs.py
\* chars.split(sep): the pieces between the separators.
RECURSIVE Split(_, _)
Split(chars, sep) ==
    IF \A k \in 1..Len(chars) : chars[k] # sep THEN <<chars>>
    ELSE LET at == CHOOSE k \in 1..Len(chars) :
                       chars[k] = sep /\ \A m \in 1..(k - 1) : chars[m] # sep
         IN  <<SubSeq(chars, 1, at - 1)>>
             \o Split(SubSeq(chars, at + 1, Len(chars)), sep)

\* The --time values tried: three of the form HH:MM, one without a colon and
\* one with seconds.
Times == {<<"0", "9", ":", "0", "0">>, <<"1", "4", ":", "3", "0">>, <<"2", "3", ":", "0", "5">>, <<"0", "9", "0", "0">>, <<"0", "9", ":", "0", "0", ":", "0", "0">>}

\* The --day values tried: not given, the documented days of the week 0..7,
\* and -1, 15 and 31.
LastWeekday == 7

Days == {PyNone} \cup {PyInt(d) : d \in 0..LastWeekday}
        \cup {PyInt(-1), PyInt(15), PyInt(31)}

\* generate_cron_command with weekly looked at before daily.
GenerateCronCommandWeeklyFirst(time, day, weekly, daily) ==
    LET parts == Split(time, ":")
        hour == Str(parts[1])
        minute == Str(parts[2])
        d == IF day # PyNone THEN day.n ELSE 1
    IN  IF Len(parts) # 2
        THEN [raises |-> "ValueError", schedule |-> "", description |-> ""]
        ELSE IF weekly
        THEN [raises |-> "", schedule |-> minute \o " " \o hour \o " * * "
                                          \o ToString(d),
              description |-> "weekly on day " \o ToString(d)]
        ELSE IF daily
        THEN [raises |-> "", schedule |-> minute \o " " \o hour \o " * * *",
              description |-> "daily"]
        ELSE [raises |-> "", schedule |-> minute \o " " \o hour \o " "
                                          \o ToString(d) \o " * *",
              description |-> "monthly on day " \o ToString(d)]

\* generate_cron_command(time, day, weekly, daily): the exception raised, if
\* any, cron_expr and description.
GenerateCronCommand(time, day, weekly, daily) ==
    LET parts == Split(time, ":")
        hour == Str(parts[1])
        minute == Str(parts[2])
        d == IF day # PyNone THEN day.n ELSE 1
    IN  IF Len(parts) # 2
        THEN [raises |-> "ValueError", schedule |-> "", description |-> ""]
        ELSE IF daily
        THEN [raises |-> "", schedule |-> minute \o " " \o hour \o " * * *",
              description |-> "daily"]
        ELSE IF weekly
        THEN [raises |-> "", schedule |-> minute \o " " \o hour \o " * * "
                                          \o ToString(d),
              description |-> "weekly on day " \o ToString(d)]
        ELSE [raises |-> "", schedule |-> minute \o " " \o hour \o " "
                                          \o ToString(d) \o " * *",
              description |-> "monthly on day " \o ToString(d)]

\* generate_systemd_files: the list the day of the week indexes.
DayNames == <<"Sun", "Mon", "Tue", "Wed", "Thu", "Fri", "Sat">>

\* f"{n:02d}"
TwoDigits(n) == IF n >= 0 /\ n < 10 THEN "0" \o ToString(n) ELSE ToString(n)

\* generate_systemd_files(time, day, weekly, daily): the exception raised, if
\* any, on_calendar and description.  A list index below 0 counts from the
\* end; one outside the list raises IndexError.
GenerateSystemdFiles(time, day, weekly, daily) ==
    LET d == IF day # PyNone THEN day.n ELSE 1
        day_name == IF d >= 0 THEN DayNames[d + 1]
                    ELSE DayNames[Len(DayNames) + d + 1]
    IN  IF daily
        THEN [raises |-> "", schedule |-> "*-*-* " \o Str(time) \o ":00",
              description |-> "daily"]
        ELSE IF weekly
        THEN IF d >= Len(DayNames) \/ d < -Len(DayNames)
             THEN [raises |-> "IndexError", schedule |-> "", description |-> ""]
             ELSE [raises |-> "",
                   schedule |-> day_name \o " " \o Str(time) \o ":00",
                   description |-> "weekly on " \o day_name]
        ELSE [raises |-> "",
              schedule |-> "*-*-" \o TwoDigits(d) \o " " \o Str(time) \o ":00",
              description |-> "monthly on day " \o ToString(d)]

\* python schedule_pdfs.py [--cron | --systemd] [--time T] [--day D]
\* [--weekly] [--daily]
InitSchedulePdfs ==
    /\ prog = "schedule_pdfs"
    /\ argv = NoArgs
    /\ pc = "sp_main"
    /\ clock = 1
    /\ fs = NoFiles
    /\ InitLocals
    /\ NoUnit
    /\ inputs = <<>>
    /\ api_key = <<>>
    /\ api_calls = <<>>
    /\ feedback_text = <<>>
    /\ document = <<>>
    /\ reports = <<>>
    /\ \E cron \in BOOLEAN, systemd \in BOOLEAN, time \in Times, day \in Days,
          weekly \in BOOLEAN, daily \in BOOLEAN :
          call_args = [cron |-> cron, systemd |-> systemd, time |-> time,
                       day |-> day, weekly |-> weekly, daily |-> daily]
    /\ returned = <<>>

\* main: --cron prints what generate_cron_command returns, else --systemd
\* what generate_systemd_files returns, else the instructions, which call
\* generate_cron_command with its defaults; an exception ends the process
\* with a traceback.
SpMain ==
    /\ pc = "sp_main"
    /\ returned' =
           IF call_args.cron
           THEN GenerateCronCommand(call_args.time, call_args.day,
                                    call_args.weekly, call_args.daily)
           ELSE IF call_args.systemd
           THEN GenerateSystemdFiles(call_args.time, call_args.day,
                                     call_args.weekly, call_args.daily)
           ELSE GenerateCronCommand(<<"0", "9", ":", "0", "0">>, PyNone, FALSE, FALSE)
    /\ Exit(IF returned'.raises = "" THEN 0 ELSE 1)
    /\ reported' = (returned'.raises # "")
    /\ UNCHANGED <<prog, argv, past, unitVars, inputs, api_key, api_calls,
                   feedback_text, document, reports, call_args, fs, fs0,
                   clock, i, netVars, diffVars, smtp, loopVars, warned, steps>>

SchedulePdfsNext == SpMain

\* ------------------------------------------------------ the specification
Init ==
    InitEmailAuto \/ InitPdfSimple \/ InitScraper \/ InitFetchPdfs
    \/ InitReadPdfText \/ InitFindPdfUrl \/ InitReportGenerator
    \/ InitUpdateTable \/ InitSchedulePdfs

Next ==
    EmailAutoNext \/ PdfSimpleNext \/ ScraperNext \/ FetchPdfsNext
    \/ ReadPdfTextNext \/ FindPdfUrlNext \/ ReportGeneratorNext
    \/ UpdateTableNext \/ SchedulePdfsNext

Spec == Init /\ [][Next]_vars

\* A process runs on until it ends.
FairSpec == Spec /\ WF_vars(Next)

\* ----------------------------------------------------------------- claims
\* Step s was executed in this run.
Did(s) == \E k \in 1..Len(steps) : steps[k].s = s

\* A fetch or an extraction of this run failed.
FetchOrExtractFailed ==
    \E k \in 2..Len(steps) :
        /\ steps[k].s = "ERROR"
        /\ steps[k - 1].s \in {"FETCH", "EXTRACT"}
        /\ steps[k - 1].t = steps[k].t

\* C1: in a diff_files run a notification is attempted if and only if the
\* diff between the old and the new snapshot is non-empty; identical files
\* mean no SMTP session.  (Stated as the claim has it; the code violates it.)
C1_NotifyIffDiffNonEmpty ==
    (prog = "email_auto" /\ pc = "done" /\ Did("DIFF"))
        => (smtp.sessions > 0 <=> diff_text # "")

\* C2: the differ's result is empty if and only if old and new are
\* line-for-line identical, for the diff text of diff_files and for what
\* mindiff_text_files writes to its output file.
C2_DiffEmptyIffIdentical ==
    /\ (prog = "email_auto" /\ Did("DIFF"))
          => (diff_text = "" <=> old_data = new_data)
    /\ (prog = "abet_pdf_simple" /\ Did("DIFF"))
          => (diff_lines = <<>> <=> a_lines = b_lines)
    /\ (prog = "abet_pdf_simple" /\ Did("PERSIST_DIFF"))
          => /\ fs[DiffOutput].exists
             /\ fs[DiffOutput].lines = <<>> <=> a_lines = b_lines

\* C2 witness: mindiff of two identical non-empty files wrote an empty diff
\* file.
C2_Witness ==
    /\ prog = "abet_pdf_simple"
    /\ pc = "done"
    /\ Did("PERSIST_DIFF")
    /\ a_lines = b_lines
    /\ a_lines # <<>>
    /\ fs[DiffOutput].exists
    /\ fs[DiffOutput].lines = <<>>

\* C3: a delivery failure (connect, login or send raising) is caught: the
\* run still ends with the success status, and the new snapshot file is
\* still there, unchanged.
C3_DeliveryFailureNotFatal ==
    (prog = "email_auto" /\ pc = "done" /\ smtp.sessions > 0
     /\ smtp.delivered = 0)
        => /\ exit_code = 0
           /\ warned
           /\ fs[NEW_FILE_CS].exists
           /\ fs[NEW_FILE_CS] = fs0[NEW_FILE_CS]

\* C3 witness: the login raised, and the run ended.
C3_Witness ==
    /\ prog = "email_auto"
    /\ pc = "done"
    /\ smtp.logins = 1
    /\ smtp.sends = 0
    /\ warned

\* C4: when a fetch or an extraction fails, the run has written no snapshot
\* and no partial artifact, and every file that was on disk is unmodified.
\* (Stated as the claim has it; the code violates it.)
C4_FailureWritesNothing ==
    (pc = "done" /\ FetchOrExtractFailed) => fs = fs0

\* C5: on a first run, with no previous snapshot file, the old lines are the
\* empty sequence and the run goes on to DIFF and ends normally.  (Stated as
\* the claim has it; the code violates it.)
C5_FirstRunDiffsAgainstEmpty ==
    (prog = "email_auto" /\ pc = "done" /\ ~fs0[OLD_FILE_CS].exists
     /\ fs0[NEW_FILE_CS].exists)
        => (Did("DIFF") /\ old_data = <<>>)

C7_ExitIndicator ==
    pc = "done" =>
        /\ exit_code \in {0, 1}
        /\ (prog = "fetch_pdfs" /\ ~NamesMismatch(argv))
              => /\ Len(results) = Len(Pdfs(argv))
                 /\ exit_code = 0 <=> \A k \in 1..Len(results) : results[k]
        /\ (prog = "fetch_pdfs" /\ NamesMismatch(argv)) => exit_code = 1
        /\ prog \in {"abet_pdf_simple", "email_auto"}
              => (exit_code = 1 <=> Did("ERROR"))
        /\ (prog = "email_auto"
            /\ (~fs0[OLD_FILE_CS].exists \/ ~fs0[NEW_FILE_CS].exists))
              => exit_code = 1
        /\ (prog = "email_auto" /\ smtp.sessions > 0) => exit_code = 0

\* C7 witness: fetch_pdfs got its first target, failed on the second and
\* returned 1.
C7_Witness ==
    /\ prog = "fetch_pdfs"
    /\ pc = "done"
    /\ results = <<TRUE, FALSE>>
    /\ exit_code = 1

\* C8: a run makes at most one delivery attempt: one SMTP session with at
\* most one login and one send_message, and no retry after a failure.
C8_AtMostOneDelivery ==
    /\ smtp.sessions <= 1
    /\ smtp.logins <= 1
    /\ smtp.sends <= 1
    /\ Cardinality({k \in 1..Len(steps) : steps[k].s = "NOTIFY"}) <= 1

\* C8 witness: the one send failed and the run ended without another try.
C8_Witness ==
    /\ prog = "email_auto"
    /\ pc = "done"
    /\ smtp.sessions = 1
    /\ smtp.sends = 1
    /\ smtp.delivered = 0

\* The place of a step in FETCH, EXTRACT, PERSIST_SNAPSHOT, LOAD_PREVIOUS,
\* DIFF, (NOTIFY | SKIP).
StepOrder(s) ==
    CASE s = "FETCH" -> 1
      [] s = "EXTRACT" -> 2
      [] s \in {"PERSIST", "PERSIST_PDF"} -> 3
      [] s = "LOAD_PREVIOUS" -> 4
      [] s \in {"DIFF", "PERSIST_DIFF"} -> 5
      [] s \in {"NOTIFY", "SKIP"} -> 6
      [] OTHER -> 7

\* Target t went through step s.
DidFor(t, s) == \E k \in 1..Len(steps) : steps[k] = Step(t, s)

\* C9: the steps of a run occur in the order FETCH, EXTRACT,
\* PERSIST_SNAPSHOT, LOAD_PREVIOUS, DIFF, (NOTIFY | SKIP), DONE, and on the
\* success path none is skipped.  (Stated as the claim has it; the code
\* violates it.)
C9_StepsInOrder ==
    /\ prog \in {"abet_scraper", "email_auto"}
          => \A k \in 1..Len(steps), m \in 1..Len(steps) :
                (k < m /\ steps[k].t = steps[m].t)
                    => StepOrder(steps[k].s) <= StepOrder(steps[m].s)
    /\ (prog = "abet_scraper" /\ pc = "done" /\ ~Did("ERROR"))
          => /\ \A t \in {1, 2} :
                   DidFor(t, "FETCH") /\ DidFor(t, "EXTRACT")
                   /\ DidFor(t, "PERSIST")
             /\ Did("LOAD_PREVIOUS")
             /\ Did("DIFF")
             /\ Did("NOTIFY") \/ Did("SKIP")

\* How far the run has come: the target, then the statement.
Progress ==
    CASE pc = "done" -> 100
      [] pc = "blocked" -> 99
      [] pc = "rp_page" -> Len(text_parts)
      [] pc = "fu_find" -> 1
      [] pc = "fu_download" -> 2
      [] pc = "gen_template" -> 1
      [] pc = "tbl_update" -> 1
      [] pc = "sp_main" -> 1
      [] pc = "gen_feedback" -> 10 * i + 1
      [] pc = "gen_report" -> 10 * i + 2
      [] pc = "gen_csv" -> 10 * i + 3
      [] pc = "sc_getlink" -> i
      [] pc \in {"df_check_old", "md_check", "pg_find", "fp_args"} -> 1
      [] pc \in {"df_check_new"} -> 2
      [] pc \in {"df_read", "md_read", "pg_download"} -> 3
      [] pc \in {"df_diff", "md_diff", "pg_save"} -> 4
      [] pc \in {"df_notify", "md_write", "pg_extract"} -> 5
      [] pc = "pg_output" -> 6
      [] pc \in {"sc_find", "fp_download"} -> 10 * i + 1
      [] pc \in {"sc_download", "fp_save_pdf"} -> 10 * i + 2
      [] pc \in {"sc_extract", "fp_extract"} -> 10 * i + 3
      [] pc \in {"sc_write", "fp_save_text"} -> 10 * i + 4
      [] pc = "sc_runprog" -> 10 * i + 5

\* C10: every run reaches DONE, and reaches it once: nothing happens after
\* DONE, and no step leads back to an earlier point of the run.  (Stated as
\* the claim has it; the code violates the first part: a page GET without a
\* timeout can wait for ever.)
C10_DoneOnce ==
    /\ prog \in {"abet_scraper", "email_auto"} => <>(pc = "done")
    /\ [][pc = "done" => Len(past') > Len(past)]_vars
    /\ [][Len(past') = Len(past) => Progress' > Progress]_vars

\* C11: a run repeated while the monitored content is what it was at the
\* previous run computes an empty diff and opens no SMTP session.  (Stated
\* as the claim has it; the code violates it.)
C11_RerunIsSilent ==
    (prog = "email_auto" /\ pc = "done" /\ past # <<>> /\ Did("DIFF")
     /\ past[Len(past)].diffed
     /\ fs[NEW_FILE_CS] = past[Len(past)].fs[NEW_FILE_CS])
        => (diff_text = "" /\ smtp.sessions = 0)

\* C12: a persisted snapshot is immutable: no run of the scraper or of
\* fetch_pdfs overwrites, truncates or deletes a file an earlier capture
\* wrote.  (Stated as the claim has it; the code violates it.)
C12_SnapshotsImmutable ==
    prog \in {"abet_scraper", "fetch_pdfs"}
        => \A p \in Paths : fs0[p].exists => fs[p] = fs0[p]

\* What a line of a snapshot can be: without its line ending, as splitlines
\* gives it, or with it, as readlines does.
LineBodies ==
    LET letters == Alphabet \cup {"C", "D"}
    IN  letters \cup {x \o "\n" : x \in letters}

\* Reading a line of a unified diff: a context line starts with a blank, a
\* removed line with "-", an added line with "+".
ContextLines == {" " \o x : x \in LineBodies}

RemovedLines == {"-" \o x : x \in LineBodies}

AddedLines == {"+" \o x : x \in LineBodies}

IsContext(l) == l \in ContextLines

IsRemoved(l) == l \in RemovedLines

IsAdded(l) == l \in AddedLines

\* The line without its first character.
Body(l) == CHOOSE x \in LineBodies : l \in {" " \o x, "-" \o x, "+" \o x}

\* The ranges <<i1, i2, j1, j2>> a hunk header can name.
HunkRanges ==
    LET most == Max2(MaxLen, Len(ScenarioOld.lines))
    IN  {r \in (0..most) \X (0..most) \X (0..most) \X (0..most) :
            r[1] <= r[2] /\ r[3] <= r[4]}

\* The "@@ -a,b +c,d @@" line that names the range r.
HeaderText(r) ==
    "@@ -" \o FormatRangeUnified(r[1], r[2])
    \o " +" \o FormatRangeUnified(r[3], r[4]) \o " @@"

HunkHeaders == {HeaderText(r) : r \in HunkRanges}

IsHunkHeader(l) == l \in HunkHeaders

\* The run read the snapshots of the scenario.
ScenarioRead ==
    \/ /\ prog = "email_auto"
       /\ old_data = <<"A\n", "B\n", "C\n">>
       /\ new_data = <<"A\n", "B\n", "D\n">>
    \/ /\ prog = "abet_pdf_simple"
       /\ a_lines = <<"A", "B", "C">>
       /\ b_lines = <<"A", "B", "D">>

\* C13: for the old snapshot A, B, C and the new snapshot A, B, D the diff
\* is one hunk with C removed and D added, and with A and B as its context
\* lines when the context count is at least 2, as the default 3 is; the run
\* of diff_files opens exactly one SMTP session.
C13_ScenarioOneHunk ==
    /\ (prog = "email_auto" /\ ScenarioRead /\ Did("DIFF"))
          => diff_text = "--- Old CS Criteria" \o "+++ New CS Criteria"
                         \o "@@ -1,3 +1,3 @@"
                         \o " A\n" \o " B\n" \o "-C\n" \o "+D\n"
    /\ (prog = "email_auto" /\ ScenarioRead /\ pc = "done")
          => /\ smtp.sessions = 1
             /\ Cardinality({k \in 1..Len(steps) : steps[k].s = "NOTIFY"}) = 1
    /\ (prog = "abet_pdf_simple" /\ ScenarioRead /\ Did("DIFF"))
          => /\ Len(SelectSeq(diff_lines, IsHunkHeader)) = 1
             /\ SelectSeq(diff_lines, IsRemoved) = <<"-C">>
             /\ SelectSeq(diff_lines, IsAdded) = <<"+D">>
             /\ argv.context >= 2
                   => diff_lines = <<"--- " \o OLD_FILE_CS,
                                     "+++ " \o NEW_FILE_CS,
                                     "@@ -1,3 +1,3 @@",
                                     " A", " B", "-C", "+D">>

\* C13 witness: diff_files ran on the scenario and its e-mail was sent.
C13_Witness ==
    /\ prog = "email_auto"
    /\ pc = "done"
    /\ ScenarioRead
    /\ smtp.delivered = 1

\* The lines a diff shows of the old file, and of the new file.
IsOldSide(l) == IsContext(l) \/ IsRemoved(l)

IsNewSide(l) == IsContext(l) \/ IsAdded(l)

\* The bodies of the lines of d.
Bodies(d) == [k \in 1..Len(d) |-> Body(d[k])]

OldSide(d) == Bodies(SelectSeq(d, IsOldSide))

NewSide(d) == Bodies(SelectSeq(d, IsNewSide))

\* The range a hunk header names.
RangeOf(l) == CHOOSE r \in HunkRanges : l = HeaderText(r)

\* The lines of the hunk whose header is line k of d: up to the next header.
HunkBody(d, k) ==
    LET later == {m \in (k + 1)..Len(d) : IsHunkHeader(d[m])}
        last == IF later = {} THEN Len(d)
                ELSE (CHOOSE m \in later : \A q \in later : m <= q) - 1
    IN  SubSeq(d, k + 1, last)

\* The diff d applied to the lines from, of which pos are used up, from
\* line k of d on: forward it turns the old file into the new one, backward
\* the new one into the old one.
RECURSIVE PatchFrom(_, _, _, _, _)
PatchFrom(from, d, k, pos, forward) ==
    IF k > Len(d) THEN Slice(from, pos, Len(from))
    ELSE IF IsHunkHeader(d[k])
    THEN LET start == IF forward THEN RangeOf(d[k])[1] ELSE RangeOf(d[k])[3]
         IN  Slice(from, pos, start) \o PatchFrom(from, d, k + 1, start, forward)
    ELSE IF IsContext(d[k])
    THEN <<Body(d[k])>> \o PatchFrom(from, d, k + 1, pos + 1, forward)
    ELSE IF (forward /\ IsRemoved(d[k])) \/ (~forward /\ IsAdded(d[k]))
    THEN PatchFrom(from, d, k + 1, pos + 1, forward)
    ELSE IF IsRemoved(d[k]) \/ IsAdded(d[k])
    THEN <<Body(d[k])>> \o PatchFrom(from, d, k + 1, pos, forward)
    ELSE PatchFrom(from, d, k + 1, pos, forward)

\* C14 as claimed: the context and removed lines of the diff, in order, are
\* the old lines, and the context and added lines are the new lines.
C14_RoundTrip ==
    (prog = "abet_pdf_simple" /\ Did("DIFF"))
        => /\ OldSide(diff_lines) = a_lines
           /\ NewSide(diff_lines) = b_lines

\* C14 as amended: in every hunk the context and removed lines are exactly
\* the old lines its header names and the context and added lines exactly the
\* new lines it names; the diff applied to the old lines gives the new lines
\* and, applied backward to the new lines, the old lines.
C14_HunkRoundTrip ==
    (prog = "abet_pdf_simple" /\ Did("DIFF"))
        => /\ \A k \in 1..Len(diff_lines) :
                 IsHunkHeader(diff_lines[k])
                     => LET r == RangeOf(diff_lines[k])
                            body == HunkBody(diff_lines, k)
                        IN  /\ OldSide(body) = Slice(a_lines, r[1], r[2])
                            /\ NewSide(body) = Slice(b_lines, r[3], r[4])
           /\ PatchFrom(a_lines, diff_lines, 1, 0, TRUE) = b_lines
           /\ PatchFrom(b_lines, diff_lines, 1, 0, FALSE) = a_lines

\* C14 witness: a diff was written whose hunk leaves out an unchanged line of
\* the old file.
C14_Witness ==
    /\ prog = "abet_pdf_simple"
    /\ pc = "done"
    /\ Did("PERSIST_DIFF")
    /\ diff_lines # <<>>
    /\ Len(OldSide(diff_lines)) < Len(a_lines)

\* The places of the changed (removed or added) lines in a hunk body.
ChangedAt(body) == {q \in 1..Len(body) : ~IsContext(body[q])}

\* The unchanged lines before the first and after the last changed line.
Leading(body) ==
    (CHOOSE c \in ChangedAt(body) : \A q \in ChangedAt(body) : c <= q) - 1

Trailing(body) ==
    Len(body) - (CHOOSE c \in ChangedAt(body) : \A q \in ChangedAt(body) : c >= q)

\* The unchanged lines of body from place m to place c, both included.
ContextBetween(body, m, c) ==
    Cardinality({q \in Min2(m, c)..Max2(m, c) : IsContext(body[q])})

\* The diff d of the old lines a keeps to the context count n: every hunk has
\* a change, n unchanged lines before its first and after its last change
\* (fewer only where the file begins or ends), and no unchanged line farther
\* than n lines from a change.
KeepsContext(d, a, n) ==
    \A k \in 1..Len(d) :
        IsHunkHeader(d[k])
            => LET body == HunkBody(d, k)
                   r == RangeOf(d[k])
               IN  /\ ChangedAt(body) # {}
                   /\ Leading(body) <= n
                   /\ Trailing(body) <= n
                   /\ Leading(body) = n \/ r[1] = 0
                   /\ Trailing(body) = n \/ r[2] = Len(a)
                   /\ \A m \in 1..Len(body) :
                         IsContext(body[m])
                             => \E c \in ChangedAt(body) :
                                   ContextBetween(body, m, c) <= n

\* C15: every hunk carries at most n unchanged lines before its first and
\* after its last changed line, every unchanged line shown is within n lines
\* of a change (so those farther away are left out), where n is the context
\* count passed to mindiff_text_files, and unified_diff's default 3 in
\* diff_files.
C15_ContextCount ==
    /\ (prog = "abet_pdf_simple" /\ Did("DIFF"))
          => KeepsContext(diff_lines, a_lines, argv.context)
    /\ (prog = "email_auto" /\ Did("DIFF"))
          => LET d == UnifiedDiff(old_data, new_data, "Old CS Criteria",
                                  "New CS Criteria", DifflibContext, "")
             IN  /\ diff_text = JoinEmpty(d)
                 /\ KeepsContext(d, old_data, DifflibContext)

\* C15 witness: with a context count of 1 the diff of the scenario shows B
\* and leaves A out.
C15_Witness ==
    /\ prog = "abet_pdf_simple"
    /\ pc = "done"
    /\ argv.context = 1
    /\ ScenarioRead
    /\ SelectSeq(diff_lines, IsContext) = <<" B">>

RECURSIVE BestEffortText(_, _)
BestEffortText(pages, k) ==
    IF k = 0 THEN ""
    ELSE (IF k = 1 THEN "" ELSE BestEffortText(pages, k - 1) \o "\n")
         \o (IF pages[k].raises THEN "" ELSE pages[k].text)

\* C17: read_pdf_text returns normally whatever its pages do, a page that
\* fails giving the empty string, and the result is the page texts with one
\* newline between consecutive pages.  (Stated as the claim has it; the code
\* violates it.)
C17_BestEffortPerPage ==
    (prog = "read_pdf_text" /\ pc = "done")
        => /\ exit_code = 0
           /\ extracted = BestEffortText(pdf_pages, Len(pdf_pages))

\* The match the claims describe: the selector, whatever its case, is part
\* of the anchor's visible text or of its class.
MatchesSelector(t, sel) ==
    \/ t.string # None /\ Contains(Lower(sel), Lower(t.string))
    \/ t.class # None /\ Contains(Lower(sel), Lower(t.class))

\* The anchors of the page that match the selector and have an href.
Candidates(page, sel) ==
    {k \in 1..Len(page) : MatchesSelector(page[k], sel) /\ page[k].href # NoHref}

\* C18: the URL find_pdf_url_on_page returns is the href, resolved against
\* the page URL, of an anchor whose text or class holds the caller's
\* link_text in any case, and such an anchor is found whenever the page has
\* one.  (Stated as the claim has it; the code violates it.)
C18_SelectorDeterminesAnchor ==
    (prog = "find_pdf_url_on_page" /\ pc # "fu_find")
        => /\ pdf_url # ""
                => \E k \in Candidates(html, link_text) :
                       pdf_url = Urljoin(PageUrl, html[k].href)
           /\ Candidates(html, link_text) # {} => pdf_url # ""

\* C19: on a page where no anchor matching the selector has an href, the
\* search ends in the link-not-found error, no download is requested and no
\* file is written.  (Stated as the claim has it; the code violates it.)
C19_NoMatchNoDownload ==
    (prog = "find_pdf_url_on_page" /\ pc = "done"
     /\ Candidates(html, link_text) = {})
        => /\ exit_code = 1
           /\ steps = <<Step(0, "FIND"), Step(0, "ERROR")>>
           /\ pdf_url = ""
           /\ fs = fs0

\* C20: no request waits for ever: every call to the network gives up after
\* its timeout.  (Stated as the claim has it; the code violates it.)
C20_EveryCallTimesOut == pc # "blocked"

\* The inputs of the run the API was called for.
Called == {api_calls[k].input : k \in 1..Len(api_calls)}

\* C21: the text-generation API is called for an input only when its
\* normalized outcome_met is False itself; for every other input no call is
\* made and the tail written to its report is "NA".
C21_ApiOnlyWhenNotMet ==
    prog = "abetReportGenerator"
        => /\ \A k \in Called :
                  GetOverallSummary(inputs[k]).outcome_met = PyBool(FALSE)
           /\ \A k \in 1..Len(reports) :
                  GetOverallSummary(inputs[k]).outcome_met # PyBool(FALSE)
                      => /\ k \notin Called
                         /\ reports[k].document.changes_tail = "NA"
                         /\ fs[ReportPath(k)].lines[2] = "NA"

\* C21 witness: a finished run that called the API for its first input, not
\* met, and wrote the answer, and made no call for its second, whose
\* outcome_met is 0.
C21_Witness ==
    /\ prog = "abetReportGenerator"
    /\ pc = "done"
    /\ Len(reports) = 2
    /\ GetOverallSummary(inputs[1]).outcome_met = PyBool(FALSE)
    /\ GetOverallSummary(inputs[2]).outcome_met = PyInt(0)
    /\ Called = {1}
    /\ reports[1].document.changes_tail = "Add labs."
    /\ reports[2].document.changes_tail = "NA"

\* C22: ensure_template_docx writes the decoded template only over a missing
\* or empty file; a file that exists and is not empty is left as it is, in
\* this run and in a later one; a second call changes nothing.
C22_TemplateWrittenOnce ==
    prog = "abetReportGenerator"
        => /\ pc # "gen_template"
                  => fs[TemplatePath] =
                         IF fs0[TemplatePath].exists
                            /\ fs0[TemplatePath] # EmptyFile
                         THEN fs0[TemplatePath]
                         ELSE DocxFile(TemplateDoc)
           /\ past # <<>>
                  => fs[TemplatePath] = past[Len(past)].fs[TemplatePath]
           /\ EnsureTemplateDocx(EnsureTemplateDocx(fs)) = EnsureTemplateDocx(fs)
           /\ \A p \in Paths \ {TemplatePath} :
                  EnsureTemplateDocx(fs)[p] = fs[p]

\* C22 witness: a first run found no template and wrote it; the next run is
\* past its call and the file is the one the first run wrote.
C22_Witness ==
    /\ prog = "abetReportGenerator"
    /\ Len(past) = 1
    /\ past[1].fs0[TemplatePath] = Missing
    /\ past[1].fs[TemplatePath] = DocxFile(TemplateDoc)
    /\ pc = "gen_feedback"
    /\ fs[TemplatePath] = DocxFile(TemplateDoc)

\* The key is unset, or nothing is left of it once the whitespace around it,
\* then the double quotes, then the single quotes are stripped.
KeyIsEmpty(key) ==
    \/ key = PyNone
    \/ Strip(Strip(Strip(key.s, Whitespace), {"\""}), {"'"}) = <<>>

\* The response carries no text: None, or whitespace only.
IsBlank(output_text) ==
    \/ output_text = PyNone
    \/ \A k \in 1..Len(output_text.s) : output_text.s[k] \in Whitespace

\* C29: generate_feedback_with_openai returns a str that is not empty: "NA"
\* with no API call when the key is unset or empty once stripped, "NA" when
\* the call raises or its text is blank, else the stripped text; and a run
\* whose template is usable saves a report for every input whatever the API
\* did.
C29_FeedbackNeverFails ==
    prog = "abetReportGenerator"
        => /\ (pc = "gen_report"
               /\ GetOverallSummary(inputs[i]).outcome_met = PyBool(FALSE))
                  => /\ feedback_text.type = "str"
                     /\ feedback_text.s # <<>>
                     /\ KeyIsEmpty(api_key)
                            => feedback_text.s = NA /\ i \notin Called
                     /\ ~KeyIsEmpty(api_key)
                            => /\ api_calls # <<>>
                               /\ api_calls[Len(api_calls)].input = i
                               /\ LET response ==
                                          api_calls[Len(api_calls)].response
                                  IN  feedback_text.s =
                                          IF response.raises
                                             \/ IsBlank(response.output_text)
                                          THEN NA
                                          ELSE Strip(response.output_text.s,
                                                     Whitespace)
           /\ (pc = "done" /\ fs0[TemplatePath] # OtherFile)
                  => /\ exit_code = 0
                     /\ Len(reports) = Len(inputs)
                     /\ \A k \in 1..Len(inputs) :
                            fs[ReportPath(k)] = DocxFile(reports[k].document)

\* C29 witness: a finished run of two inputs, neither met: the call for the
\* first raised and its report says "NA"; the call for the second answered
\* and its report holds the stripped answer.
C29_Witness ==
    /\ prog = "abetReportGenerator"
    /\ pc = "done"
    /\ Len(api_calls) = 2
    /\ api_calls[1].response.raises
    /\ ~api_calls[2].response.raises
    /\ ~IsBlank(api_calls[2].response.output_text)
    /\ Len(reports) = 2
    /\ reports[1].document.changes_tail = "NA"
    /\ reports[2].document.changes_tail = "Add labs."

\* The int the claim's reading gives for an accepted value.
IntOf(x) == (CHOOSE v \in Parsable : v[1] = x)[2]

\* C30: the count written to the "below" row is max(0, total - competent),
\* never negative, the count written to the "competent" row is competent;
\* and when sample_size or number_competent is no integer no cell changes.
C30_BelowNeverNegative ==
    (prog = "update_score_distribution_table" /\ pc = "done")
        => IF call_args.sample_size \in Unparsable
              \/ call_args.number_competent \in Unparsable
           THEN document.table = call_args.table
           ELSE LET total == IntOf(call_args.sample_size)
                    competent == IntOf(call_args.number_competent)
                IN  /\ document.table[1] = call_args.table[1]
                    /\ document.table[2] = <<"100%-70%", ToString(competent)>>
                    /\ document.table[3] =
                           <<"Below 70%",
                             ToString(IF total - competent > 0
                                      THEN total - competent ELSE 0)>>
                    /\ document.table[3][2] \in {ToString(n) : n \in 0..MaxCount}

\* C30 witness: 12 competent students in a sample of 10: the "below" row
\* holds 0.
C30_Witness ==
    /\ prog = "update_score_distribution_table"
    /\ pc = "done"
    /\ call_args.sample_size = PyInt(10)
    /\ call_args.number_competent = PyInt(12)
    /\ call_args.table = TemplateDoc.table
    /\ document.table[3] = <<"Below 70%", "0">>

\* C23: with --no-text no text is extracted and no text file is written;
\* fetch_pdf returns True exactly for the targets whose PDF was downloaded
\* and saved, and the saved PDF is on disk.
C23_NoTextOnlyDownloads ==
    (prog = "fetch_pdfs" /\ argv.no_text)
        => /\ ~Did("EXTRACT")
           /\ ~Did("PERSIST")
           /\ text = Text(<<>>, FALSE)
           /\ \A n \in TargetNames, ts \in Stamps :
                  fs[TextPath(n, ts)] = fs0[TextPath(n, ts)]
           /\ \A t \in 1..Len(results) :
                  /\ results[t] <=> DidFor(t, "PERSIST_PDF")
                  /\ results[t]
                        => \E ts \in Stamps :
                               fs[PdfPath(Pdfs(argv)[t].name, ts)].kind = "pdf"

\* C23 witness: a finished --no-text run that downloaded and saved both
\* default targets and wrote no text file.
C23_Witness ==
    /\ prog = "fetch_pdfs"
    /\ argv.no_text
    /\ argv.urls = <<>>
    /\ pc = "done"
    /\ results = <<TRUE, TRUE>>
    /\ fs0 = NoFiles
    /\ \E ts \in Stamps : fs[PdfPath("CSE_Criteria", ts)].exists
    /\ \A n \in TargetNames, ts \in Stamps : ~fs[TextPath(n, ts)].exists

\* The targets for which a download was requested, in the order of the
\* requests.
Attempted ==
    LET fetches == SelectSeq(steps, LAMBDA st : st.s = "FETCH")
    IN  [k \in 1..Len(fetches) |-> fetches[k].t]

\* C26: fetch_pdfs.main attempts every target once, in list order, whatever
\* failed before; each attempt bumps one counter, success_count for True and
\* fail_count for False, so that at the end the two add up to the number of
\* targets.
C26_EveryTargetOnce ==
    (prog = "fetch_pdfs" /\ ~NamesMismatch(argv))
        => /\ Attempted = [k \in 1..Len(Attempted) |-> k]
           /\ Len(Attempted) <= Len(Pdfs(argv))
           /\ Len(results) \in {Len(Attempted) - 1, Len(Attempted)}
           /\ success_count = Cardinality({k \in 1..Len(results) : results[k]})
           /\ fail_count = Cardinality({k \in 1..Len(results) : ~results[k]})
           /\ pc = "done"
                 => /\ Len(Attempted) = Len(Pdfs(argv))
                    /\ Len(results) = Len(Pdfs(argv))
                    /\ success_count + fail_count = Len(Pdfs(argv))

\* C26 witness: the first target failed, the second was fetched all the
\* same, and the counters are 1 and 1.
C26_Witness ==
    /\ prog = "fetch_pdfs"
    /\ pc = "done"
    /\ Attempted = <<1, 2>>
    /\ results = <<FALSE, TRUE>>
    /\ success_count = 1
    /\ fail_count = 1

\* C27: --urls with --names of another length ends main with 1 before any
\* fetch and any write; without --names the k-th URL is fetched as PDF_k.
C27_NamesChecked ==
    prog = "fetch_pdfs"
        => /\ (argv.urls # <<>> /\ argv.names # <<>>
               /\ Len(argv.names) # Len(argv.urls) /\ pc # "fp_args")
                  => /\ pc = "done"
                     /\ exit_code = 1
                     /\ steps = <<>>
                     /\ results = <<>>
                     /\ fs = fs0
           /\ (argv.urls # <<>> /\ argv.names = <<>>)
                  => \A t \in 1..Len(Attempted) :
                         /\ url[t] = argv.urls[t]
                         /\ DidFor(t, "PERSIST_PDF")
                               => \E ts \in Stamps :
                                      fs[PdfPath("PDF_" \o ToString(t), ts)]
                                          .kind = "pdf"

\* C27 witness: two URLs and no names: both were fetched and saved, the
\* second as PDF_2.
C27_Witness ==
    /\ prog = "fetch_pdfs"
    /\ argv.urls = <<"https://example.com/file2.pdf",
                     "https://example.com/file1.pdf">>
    /\ argv.names = <<>>
    /\ pc = "done"
    /\ results = <<TRUE, TRUE>>
    /\ url = <<"https://example.com/file2.pdf", "https://example.com/file1.pdf">>
    /\ fs0 = NoFiles
    /\ \E ts \in Stamps : fs[PdfPath("PDF_1", ts)].exists
    /\ \E ts \in Stamps : fs[PdfPath("PDF_2", ts)].exists

\* The times of the form HH:MM among those tried, with their two fields.
TimeFields ==
    {[time |-> <<"0", "9", ":", "0", "0">>, hour |-> "09", minute |-> "00"],
     [time |-> <<"1", "4", ":", "3", "0">>, hour |-> "14", minute |-> "30"],
     [time |-> <<"2", "3", ":", "0", "5">>, hour |-> "23", minute |-> "05"]}

\* The weekday the documented day value d stands for: 0 and 7 are Sunday.
WeekdayName(d) == <<"Sun", "Mon", "Tue", "Wed", "Thu", "Fri", "Sat">>[(d % 7) + 1]

\* C24: a weekly schedule is returned, without an exception, for every day
\* of the week 0..7, by generate_cron_command and by generate_systemd_files,
\* and for Monday when no day is given.  (Stated as the claim has it; the
\* code violates it.)
C24_WeeklyDayRange ==
    (prog = "schedule_pdfs" /\ pc = "done"
     /\ (call_args.cron \/ call_args.systemd)
     /\ call_args.weekly /\ ~call_args.daily
     /\ call_args.day \in {PyNone} \cup {PyInt(d) : d \in 0..7}
     /\ \E f \in TimeFields : f.time = call_args.time)
        => LET d == IF call_args.day = PyNone THEN 1 ELSE call_args.day.n
               f == CHOOSE f \in TimeFields : f.time = call_args.time
           IN  /\ returned.raises = ""
               /\ exit_code = 0
               /\ returned.schedule =
                      IF call_args.cron
                      THEN f.minute \o " " \o f.hour \o " * * " \o ToString(d)
                      ELSE WeekdayName(d) \o " " \o f.hour \o ":" \o f.minute
                           \o ":00"

\* C25: generate_cron_command returns one schedule, daily before weekly
\* before monthly: "minute hour * * *", "minute hour * * day" or
\* "minute hour day * *", day being 1 when not given and minute and hour the
\* fields of the HH:MM time; with the defaults it is "00 09 1 * *".
C25_CronPrecedence ==
    (prog = "schedule_pdfs" /\ pc = "done" /\ ~call_args.systemd
     /\ \E f \in TimeFields : f.time = call_args.time)
        => LET d == IF call_args.day = PyNone THEN 1 ELSE call_args.day.n
               f == CHOOSE f \in TimeFields : f.time = call_args.time
           IN  IF call_args.cron
               THEN /\ returned.raises = ""
                    /\ returned.schedule =
                           IF call_args.daily
                           THEN f.minute \o " " \o f.hour \o " * * *"
                           ELSE IF call_args.weekly
                           THEN f.minute \o " " \o f.hour \o " * * "
                                \o ToString(d)
                           ELSE f.minute \o " " \o f.hour \o " "
                                \o ToString(d) \o " * *"
                    /\ returned.description =
                           IF call_args.daily THEN "daily"
                           ELSE IF call_args.weekly
                           THEN "weekly on day " \o ToString(d)
                           ELSE "monthly on day " \o ToString(d)
               ELSE /\ returned.schedule = "00 09 1 * *"
                    /\ returned.description = "monthly on day 1"

\* C25 witness: --cron --daily --weekly --day 3 --time 14:30 gave the daily
\* schedule.
C25_Witness ==
    /\ prog = "schedule_pdfs"
    /\ pc = "done"
    /\ call_args.cron
    /\ call_args.daily
    /\ call_args.weekly
    /\ call_args.day = PyInt(3)
    /\ returned.schedule = "30 14 * * *"

\* C28: with one run at a time, the new snapshot a run of the scraper or of
\* email_auto compares at DIFF is the content that same run persisted: a run
\* that has done DIFF has
\* persisted a snapshot before it, and the new lines it compared are the
\* lines of the text it persisted.  (Stated as the claim has it; the code
\* violates it.)
C28_DiffsOwnSnapshot ==
    prog \in {"abet_scraper", "email_auto"}
        => \A k \in 1..Len(steps) :
               steps[k].s = "DIFF"
                   => \E j \in 1..(k - 1) :
                          /\ steps[j].s = "PERSIST"
                          /\ new_data = ReadLines(TextFile(text))
====
